---------------------------- MODULE Spec2Model ----------------------------
(***************************************************************************)
(* A model of the Glipt runtime: the bytecode compiler (compiler.c), the   *)
(* VM dispatch loop with its call frames, upvalues and error handlers      *)
(* (vm.c), the permission set (permission.c) and the capability-gated      *)
(* natives (vm.c, parallel.c, modules/fs.c, modules/net.c, modules/proc.c).*)
(*                                                                         *)
(* Offsets, slots and indices are 0-based as in the C code; TLA+ sequences *)
(* are 1-based, so element i of a C array a is a[i + 1] here.              *)
(***************************************************************************)
EXTENDS Integers, Sequences, FiniteSets, TLC

(***************************************************************************)
(* Program constants.                                                      *)
(***************************************************************************)
UINT8_MAX == 255
UINT16_MAX == 65535
UINT8_COUNT == 256
FRAMES_MAX == 256
STACK_MAX == 65536
HANDLER_MAX == 64

OP_CONSTANT == 0
OP_NIL == 1
OP_TRUE == 2
OP_FALSE == 3
OP_ADD == 4
OP_DIVIDE == 7
OP_EQUAL == 10
OP_LESS == 14
OP_GET_LOCAL == 17
OP_SET_LOCAL == 18
OP_GET_GLOBAL == 19
OP_SET_GLOBAL == 20
OP_DEFINE_GLOBAL == 21
OP_GET_UPVALUE == 22
OP_SET_UPVALUE == 23
OP_JUMP == 24
OP_JUMP_IF_FALSE == 25
OP_LOOP == 26
OP_CALL == 27
OP_CLOSURE == 28
OP_RETURN == 29
OP_CLOSE_UPVALUE == 30
OP_BUILD_LIST == 31
OP_INDEX_GET == 33
OP_GET_PROPERTY == 35
OP_POP == 38
OP_ALLOW == 39
OP_PUSH_HANDLER == 40
OP_POP_HANDLER == 41
OP_IMPORT == 43

PERM_EXEC == 0
PERM_NET == 1
PERM_READ == 2
PERM_WRITE == 3
PERM_ENV == 4

(***************************************************************************)
(* Bounds of the model (not program constants).                            *)
(***************************************************************************)
StackSlots == 20      \* slots of vm->stack the modelled programs may touch
FrameSlots == 4       \* entries of vm->frames the modelled programs may touch
MaxRuns == 2          \* interpret() calls on one VM (REPL lines)
NumCalls == 3         \* calls of the returned closure in the counter program
MaxGlobLen == 3       \* longest glob pattern / target in the glob check
MaxPerms == 2         \* permission records in the permission-set check
MaxHeap == 20         \* heap objects after which the VM is no longer stepped

(***************************************************************************)
(* Values (value.h).  A string value is identified with its bytes: strings *)
(* are interned, so pointer identity is byte identity.                     *)
(***************************************************************************)
NIL_VAL == [t |-> "nil"]
NUMBER_VAL(n) == [t |-> "num", n |-> n]
BOOL_VAL(b) == [t |-> "bool", b |-> b]
STRING_VAL(s) == [t |-> "str", s |-> s]
OBJ_VAL(id) == [t |-> "obj", id |-> id]
NATIVE_VAL(name) == [t |-> "native", name |-> name]
FUNCTION_VAL(f) == [t |-> "fn", f |-> f]

IS_NIL(v) == v.t = "nil"
IS_BOOL(v) == v.t = "bool"
IS_NUMBER(v) == v.t = "num"
IS_STRING(v) == v.t = "str"
IS_NATIVE(v) == v.t = "native"
IS_HEAP(v) == v.t = "obj"

isFalsey(v) ==
    IF IS_NIL(v) THEN TRUE
    ELSE IF IS_BOOL(v) THEN ~v.b
    ELSE IF IS_NUMBER(v) THEN v.n = 0
    ELSE FALSE

valuesEqual(a, b) ==
    IF IS_NUMBER(a) /\ IS_NUMBER(b) THEN a.n = b.n ELSE a = b

(***************************************************************************)
(* Parse tree nodes (ast.c), as the parser builds them.                    *)
(***************************************************************************)
astNewLiteral(v) == [type |-> "NODE_LITERAL", value |-> v]
astNewVariable(name) == [type |-> "NODE_VARIABLE", name |-> name]
astNewBinary(op, left, right) ==
    [type |-> "NODE_BINARY", op |-> op, left |-> left, right |-> right]
astNewCall(callee, args) == [type |-> "NODE_CALL", callee |-> callee, args |-> args]
astNewList(elements) == [type |-> "NODE_LIST", elements |-> elements]
astNewDot(object, name) == [type |-> "NODE_DOT", object |-> object, name |-> name]
astNewCompoundAssign(name, op, value) ==
    [type |-> "NODE_COMPOUND_ASSIGN", name |-> name, op |-> op, value |-> value]
astNewExprStmt(expr) == [type |-> "NODE_EXPRESSION_STMT", expression |-> expr]
astNewBlock(stmts) == [type |-> "NODE_BLOCK", statements |-> stmts]
astNewVarDecl(name, init) ==
    [type |-> "NODE_VAR_DECL", name |-> name, initializer |-> init]
astNewFnDecl(name, params, body) ==
    [type |-> "NODE_FN_DECL", name |-> name, params |-> params, body |-> body]
astNewIf(cond, thenBranch) ==
    [type |-> "NODE_IF", condition |-> cond, thenBranch |-> thenBranch]
astNewWhile(cond, body) ==
    [type |-> "NODE_WHILE", condition |-> cond, body |-> body]
astNewFor(varName, iterable, body) ==
    [type |-> "NODE_FOR", varName |-> varName, iterable |-> iterable, body |-> body]
astNewBreak == [type |-> "NODE_BREAK"]
astNewContinue == [type |-> "NODE_CONTINUE"]
astNewReturn(value) == [type |-> "NODE_RETURN", value |-> value]
astNewAllow(permType, target) ==
    [type |-> "NODE_ALLOW", permType |-> permType, target |-> target]
astNewOnFailure(body) == [type |-> "NODE_ON_FAILURE", body |-> body]
\* The pattern of a wildcard arm is NULL: NoNode.
NoNode == [type |-> "NODE_NONE"]
astNewMatchArm(pattern, body) ==
    [type |-> "NODE_MATCH_ARM", pattern |-> pattern, body |-> body]
astNewMatch(subject, arms) ==
    [type |-> "NODE_MATCH", subject |-> subject, arms |-> arms]
\* alias is "" where the statement has no `as` part (NULL).
astNewImport(path, alias) == [type |-> "NODE_IMPORT", path |-> path, alias |-> alias]
astNewProgram(stmts) == [type |-> "NODE_PROGRAM", statements |-> stmts]

(***************************************************************************)
(* Module paths.  Where the code walks the bytes of a path, the path is    *)
(* the sequence of its one-byte strings; Chars gives the bytes of the      *)
(* paths that the modelled scripts import.                                 *)
(***************************************************************************)
RECURSIVE Cat(_)
Cat(q) == IF q = <<>> THEN "" ELSE Head(q) \o Cat(Tail(q))

Extension == <<".", "g", "l", "i", "p", "t">>

ModulePaths == {<<"m">>, <<"m">> \o Extension, <<"n">>}

Chars == [s \in {Cat(q) : q \in ModulePaths} |->
             CHOOSE q \in ModulePaths : Cat(q) = s]

\* The index of the last byte c of q, from 1, or 0 (strrchr).
lastIndexOf(q, c) ==
    LET hits == {i \in 1..Len(q) : q[i] = c}
    IN  IF hits = {} THEN 0 ELSE CHOOSE i \in hits : \A j \in hits : j <= i

endsWith(q, suffix) ==
    /\ Len(q) >= Len(suffix)
    /\ SubSeq(q, Len(q) - Len(suffix) + 1, Len(q)) = suffix

(***************************************************************************)
(* The compiler (compiler.c).  The chain of Compiler structs linked by     *)
(* `enclosing` is the sequence cs: cs[1] compiles the script, cs[Len(cs)]  *)
(* is the current compiler and cs[k - 1] is the enclosing one of cs[k].    *)
(***************************************************************************)
newFunction ==
    [arity |-> 0, upvalueCount |-> 0, name |-> "", code |-> <<>>,
     constants |-> <<>>, errorLocal |-> <<>>, joinLocals |-> <<>>,
     matches |-> <<>>, loops |-> <<>>, breaks |-> <<>>, decls |-> <<>>]

initCompiler(cs, type) ==
    Append(cs, [function |-> newFunction,
                type |-> type,
                locals |-> << [name |-> "", depth |-> 0, isCaptured |-> FALSE] >>,
                upvalues |-> <<>>,
                scopeDepth |-> 0,
                loopStart |-> -1,
                loopDepth |-> 0,
                breakJumps |-> <<>>,
                breakCount |-> 0,
                hadError |-> FALSE,
                stderr |-> <<>>])

\* fprintf(stderr, ...): the stream is the process's; the messages of one
\* compile() are kept with the script's compiler cs[1].
diagnostic(cs, message) == [cs EXCEPT ![1].stderr = Append(@, message)]

currentChunk(cs) == cs[Len(cs)].function

emitByte(cs, byte) ==
    [cs EXCEPT ![Len(cs)].function.code = Append(@, byte)]

emitBytes(cs, byte1, byte2) == emitByte(emitByte(cs, byte1), byte2)

\* Returns the compiler state and the offset of the operand's first byte.
emitJump(cs, instruction) ==
    LET c == emitByte(emitByte(emitByte(cs, instruction), 255), 255)
    IN  [cs |-> c, offset |-> Len(currentChunk(c).code) - 2]

patchJump(cs, offset) ==
    LET jump == Len(currentChunk(cs).code) - offset - 2
    IN  IF jump > UINT16_MAX THEN diagnostic(cs, "Too much code to jump over.")
        ELSE [cs EXCEPT ![Len(cs)].function.code =
                 [@ EXCEPT ![offset + 1] = (jump \div 256) % 256,
                           ![offset + 2] = jump % 256]]

emitLoop(cs, loopStart) ==
    LET c == emitByte(cs, OP_LOOP)
        offset == Len(currentChunk(c).code) - loopStart + 2
        said(c1) == IF offset > UINT16_MAX
                    THEN diagnostic(c1, "Loop body too large.")
                    ELSE c1
    IN  emitByte(emitByte(said(c), (offset \div 256) % 256), offset % 256)

\* chunk.c addConstant: a constant equal to one already in the pool reuses
\* its index; function objects are compared by identity and never reused.
addConstant(constants, value) ==
    LET same == {i \in 1..Len(constants) : valuesEqual(constants[i], value)}
    IN  IF value.t # "fn" /\ same # {}
        THEN [constants |-> constants,
              index |-> (CHOOSE i \in same : \A j \in same : i <= j) - 1]
        ELSE [constants |-> Append(constants, value), index |-> Len(constants)]

makeConstant(cs, value) ==
    LET r == addConstant(currentChunk(cs).constants, value)
        c == [cs EXCEPT ![Len(cs)].function.constants = r.constants]
    IN  IF r.index > UINT8_MAX
        THEN [cs |-> [diagnostic(c, "Too many constants in one chunk.")
                         EXCEPT ![Len(cs)].hadError = TRUE],
              index |-> 0]
        ELSE [cs |-> c, index |-> r.index]

emitConstant(cs, value) ==
    LET r == makeConstant(cs, value)
    IN  emitBytes(r.cs, OP_CONSTANT, r.index)

emitReturn(cs) == emitByte(emitByte(cs, OP_NIL), OP_RETURN)

beginScope(cs) == [cs EXCEPT ![Len(cs)].scopeDepth = @ + 1]

RECURSIVE endScopeLoop(_)
endScopeLoop(cs) ==
    LET c == cs[Len(cs)]
        n == Len(c.locals)
    IN  IF n > 0 /\ c.locals[n].depth > c.scopeDepth
        THEN endScopeLoop(
                [emitByte(cs, IF c.locals[n].isCaptured THEN OP_CLOSE_UPVALUE
                              ELSE OP_POP)
                    EXCEPT ![Len(cs)].locals = SubSeq(@, 1, n - 1)])
        ELSE cs

endScope(cs) == endScopeLoop([cs EXCEPT ![Len(cs)].scopeDepth = @ - 1])

addLocal(cs, name) ==
    IF Len(cs[Len(cs)].locals) = UINT8_COUNT
    THEN diagnostic(cs, "Too many local variables in function.")
    ELSE [cs EXCEPT ![Len(cs)].locals =
              Append(@, [name |-> name,
                         depth |-> cs[Len(cs)].scopeDepth,
                         isCaptured |-> FALSE])]

\* The index of the innermost local called name, or -1.
resolveLocal(compiler, name) ==
    LET hits == {i \in 1..Len(compiler.locals) : compiler.locals[i].name = name}
    IN  IF hits = {} THEN -1
        ELSE (CHOOSE i \in hits : \A j \in hits : j <= i) - 1

\* Adds an upvalue descriptor to compiler cs[level] unless it has it already.
addUpvalue(cs, level, index, isLocal) ==
    LET ups == cs[level].upvalues
        same == {i \in 1..Len(ups) :
                    ups[i].index = index /\ ups[i].isLocal = isLocal}
    IN  IF same # {}
        THEN [cs |-> cs, index |-> (CHOOSE i \in same : \A j \in same : i <= j) - 1]
        ELSE IF Len(ups) = UINT8_COUNT
        THEN [cs |-> diagnostic(cs, "Too many closure variables in function."),
              index |-> 0]
        ELSE [cs |-> [cs EXCEPT ![level].upvalues =
                                    Append(@, [index |-> index, isLocal |-> isLocal]),
                                ![level].function.upvalueCount = @ + 1],
              index |-> Len(ups)]

RECURSIVE resolveUpvalue(_, _, _)
resolveUpvalue(cs, level, name) ==
    IF level = 1 THEN [cs |-> cs, index |-> -1]
    ELSE LET local == resolveLocal(cs[level - 1], name)
         IN  IF local # -1
             THEN addUpvalue([cs EXCEPT ![level - 1].locals[local + 1].isCaptured = TRUE],
                             level, local, TRUE)
             ELSE LET r == resolveUpvalue(cs, level - 1, name)
                  IN  IF r.index # -1
                      THEN addUpvalue(r.cs, level, r.index, FALSE)
                      ELSE [cs |-> r.cs, index |-> -1]

identifierConstant(cs, name) == makeConstant(cs, STRING_VAL(name))

\* compileNode is the one entry to the recursion over the tree: the
\* compile functions below call it for their sub-nodes.
RECURSIVE compileNode(_, _)

compileLiteral(cs, node) ==
    LET v == node.value
    IN  IF IS_NUMBER(v) \/ IS_STRING(v) THEN emitConstant(cs, v)
        ELSE IF IS_BOOL(v) THEN emitByte(cs, IF v.b THEN OP_TRUE ELSE OP_FALSE)
        ELSE emitByte(cs, OP_NIL)

\* Emits the get (forGet) or set instruction for a name: local, then
\* upvalue, then global.
compileVariable(cs, node, forGet) ==
    LET local == resolveLocal(cs[Len(cs)], node.name)
    IN  IF local # -1
        THEN emitBytes(cs, IF forGet THEN OP_GET_LOCAL ELSE OP_SET_LOCAL, local)
        ELSE LET u == resolveUpvalue(cs, Len(cs), node.name)
             IN  IF u.index # -1
                 THEN emitBytes(u.cs, IF forGet THEN OP_GET_UPVALUE ELSE OP_SET_UPVALUE,
                                u.index)
                 ELSE LET k == identifierConstant(u.cs, node.name)
                      IN  emitBytes(k.cs, IF forGet THEN OP_GET_GLOBAL ELSE OP_SET_GLOBAL,
                                    k.index)

compileBinary(cs, node) ==
    LET operator(c) ==
            CASE node.op = "TOKEN_PLUS" -> emitByte(c, OP_ADD)
              [] node.op = "TOKEN_SLASH" -> emitByte(c, OP_DIVIDE)
              [] node.op = "TOKEN_EQUAL_EQUAL" -> emitByte(c, OP_EQUAL)
              [] node.op = "TOKEN_LESS" -> emitByte(c, OP_LESS)
              [] OTHER -> c
    IN  operator(compileNode(compileNode(cs, node.left), node.right))

\* The loops `for (...) compileNode(compiler, nodes[j])`.  (Comparing c with
\* the empty chain changes nothing: it makes TLC finish node i
\* before it starts on node i + 1.)
compileNodes(cs, nodes, i) ==
    LET RECURSIVE loop(_, _)
        loop(c0, j) ==
            IF j > Len(nodes) THEN c0
            ELSE LET c == compileNode(c0, nodes[j])
                 IN  IF c = <<>> THEN c ELSE loop(c, j + 1)
    IN  loop(cs, i)

compileCall(cs, node) ==
    LET c == compileNodes(compileNode(cs, node.callee), node.args, 1)
    IN  emitBytes(c, OP_CALL, Len(node.args))

compileList(cs, node) ==
    emitBytes(compileNodes(cs, node.elements, 1), OP_BUILD_LIST, Len(node.elements))

compileDot(cs, node) ==
    LET property(k) == emitBytes(k.cs, OP_GET_PROPERTY, k.index)
    IN  property(identifierConstant(compileNode(cs, node.object), node.name))

\* Statement i and the ones after it.  An `on failure` makes the remaining
\* statements the protected region and ends the list.
compileStatements(cs, stmts, i) ==
    LET \* the slot addLocal gave to `error`, kept with the handler's
        \* entry offset
        noteErrorLocal(c4) ==
            [c4 EXCEPT ![Len(c4)].function.errorLocal =
                Append(@, [entry |-> Len(currentChunk(c4).code),
                           slot |-> Len(c4[Len(c4)].locals) - 1])]
        \* the number of locals in compiler->locals where the protected
        \* statements and the handler body meet, kept with that offset
        noteJoinLocals(c6) ==
            [c6 EXCEPT ![Len(c6)].function.joinLocals =
                Append(@, [join |-> Len(currentChunk(c6).code),
                           locals |-> Len(c6[Len(c6)].locals)])]
        handlerBody(c5, body) ==
            IF body.type = "NODE_BLOCK"
            THEN compileNodes(c5, body.statements, 1)
            ELSE compileNode(c5, body)
        \* (Comparing c with the empty chain changes nothing: it makes TLC
        \* finish one part before it starts on the next.)
        close(c, endOffset) ==
            IF c = <<>> THEN c
            ELSE noteJoinLocals(patchJump(endScope(c), endOffset))
        enter(c, endOffset, body) ==
            IF c = <<>> THEN c
            ELSE close(handlerBody(c, body), endOffset)
        handler(endJump, handlerOffset, body) ==
            enter(noteErrorLocal(addLocal(beginScope(
                      patchJump(endJump.cs, handlerOffset)), "error")),
                  endJump.offset, body)
        leave(c, handlerOffset, body) ==
            IF c = <<>> THEN c
            ELSE handler(emitJump(emitByte(c, OP_POP_HANDLER), OP_JUMP),
                         handlerOffset, body)
        protected(handlerJump, j) ==
            leave(compileNodes(handlerJump.cs, stmts, j + 1),
                  handlerJump.offset, stmts[j].body)
        RECURSIVE loop(_, _)
        loop(c0, j) ==
            IF j > Len(stmts) THEN c0
            ELSE IF stmts[j].type = "NODE_ON_FAILURE"
            THEN protected(emitJump(c0, OP_PUSH_HANDLER), j)
            ELSE LET c == compileNode(c0, stmts[j])
                 IN  IF c = <<>> THEN c ELSE loop(c, j + 1)
    IN  loop(cs, i)

\* (Comparing c with the empty chain changes nothing: it makes TLC finish
\* the statements before it starts on endScope.)
compileBlock(cs, node) ==
    LET close(c) == IF c = <<>> THEN c ELSE endScope(c)
    IN  close(compileStatements(beginScope(cs), node.statements, 1))

compileIf(cs, node) ==
    LET thenBranch(c2) ==
            IF node.thenBranch.type = "NODE_BLOCK"
            THEN compileBlock(c2, node.thenBranch)
            ELSE compileNode(c2, node.thenBranch)
        patchElse(elseJump, thenOffset) ==
            patchJump(emitByte(patchJump(elseJump.cs, thenOffset), OP_POP),
                      elseJump.offset)
        \* (Comparing c with the empty chain changes nothing: it makes TLC
        \* finish one part before it starts on the next.)
        leave(c, thenOffset) ==
            IF c = <<>> THEN c
            ELSE patchElse(emitJump(c, OP_JUMP), thenOffset)
        patchThen(thenJump) ==
            leave(thenBranch(emitByte(thenJump.cs, OP_POP)), thenJump.offset)
        enter(c) ==
            IF c = <<>> THEN c
            ELSE patchThen(emitJump(c, OP_JUMP_IF_FALSE))
    IN  enter(compileNode(cs, node.condition))

RECURSIVE patchJumps(_, _, _)
patchJumps(cs, jumps, i) ==
    IF i > Len(jumps) THEN cs
    ELSE patchJumps(patchJump(cs, jumps[i]), jumps, i + 1)

\* `for (i = 0; i < compiler->breakCount; i++) patchJump(compiler,
\* compiler->breakJumps[i])`: breakJumps is the one array of the compiler.
patchBreaks(cs) ==
    patchJumps(cs, SubSeq(cs[Len(cs)].breakJumps, 1, cs[Len(cs)].breakCount), 1)

\* The history kept with the function, one record per loop: where the
\* statement's code begins, loopStart, the offset of the first instruction
\* after the loop's code (exit), the offset after the statement (after), the
\* number of locals in compiler->locals before the statement and inside
\* the loop, and the slots of a for loop's hidden locals.
noteLoop(cs, loop) ==
    [cs EXCEPT ![Len(cs)].function.loops = Append(@, loop)]

compileWhile(cs, node) ==
    LET k == Len(cs)
        loopStart == Len(currentChunk(cs).code)
        locals == Len(cs[k].locals)
        restore(c) ==
            [c EXCEPT ![k].loopStart = cs[k].loopStart,
                      ![k].loopDepth = cs[k].loopDepth,
                      ![k].breakCount = cs[k].breakCount]
        note(c) ==
            noteLoop(c, [kind |-> "while", first |-> loopStart,
                         loopStart |-> loopStart,
                         exit |-> Len(currentChunk(c).code),
                         after |-> Len(currentChunk(c).code),
                         locals |-> locals, inside |-> locals])
        \* (Comparing c with the empty chain changes nothing: it makes TLC
        \* finish one part before it starts on the next.)
        exit(c, exitJump) ==
            IF c = <<>> THEN c
            ELSE restore(patchBreaks(note(
                     emitByte(patchJump(emitLoop(c, loopStart), exitJump), OP_POP))))
        body(c) ==
            IF c = <<>> THEN c
            ELSE IF node.body.type = "NODE_BLOCK"
            THEN compileBlock(c, node.body)
            ELSE compileNode(c, node.body)
        condition(exitJump) ==
            exit(body(emitByte(exitJump.cs, OP_POP)), exitJump.offset)
        enter(c) ==
            IF c = <<>> THEN c
            ELSE condition(emitJump(c, OP_JUMP_IF_FALSE))
    IN  enter(compileNode([cs EXCEPT ![k].loopStart = loopStart,
                                     ![k].loopDepth = cs[k].scopeDepth,
                                     ![k].breakCount = 0],
                          node.condition))

compileFor(cs, node) ==
    LET k == Len(cs)
        locals == Len(cs[k].locals)
        first == Len(currentChunk(cs).code)
        iterSlot == locals
        idxSlot == locals + 1
        varSlot == locals + 2
        restore(c) ==
            [c EXCEPT ![k].loopStart = cs[k].loopStart,
                      ![k].loopDepth = cs[k].loopDepth,
                      ![k].breakCount = cs[k].breakCount]
        note(c, loopStart, exit) ==
            noteLoop(c, [kind |-> "for", first |-> first,
                         loopStart |-> loopStart, exit |-> exit,
                         after |-> Len(currentChunk(c).code),
                         locals |-> locals, inside |-> locals + 3,
                         iterSlot |-> iterSlot, idxSlot |-> idxSlot,
                         varSlot |-> varSlot])
        close(c, loopStart) ==
            IF c = <<>> THEN c ELSE
            restore(note(endScope(patchBreaks(c)), loopStart,
                         Len(currentChunk(c).code)))
        \* index++, the jump back, and the exit
        exit(c, loopStart, exitJump) ==
            IF c = <<>> THEN c
            ELSE close(emitByte(patchJump(emitLoop(
                     emitByte(emitBytes(emitByte(emitConstant(
                         emitBytes(c, OP_GET_LOCAL, idxSlot), NUMBER_VAL(1)),
                         OP_ADD), OP_SET_LOCAL, idxSlot), OP_POP),
                     loopStart), exitJump), OP_POP), loopStart)
        body(c) ==
            IF c = <<>> THEN c
            ELSE IF node.body.type = "NODE_BLOCK"
            THEN endScope(compileNodes(beginScope(c), node.body.statements, 1))
            ELSE compileNode(c, node.body)
        \* loop var = iterable[index]
        element(exitJump, loopStart) ==
            exit(body(emitByte(emitBytes(emitByte(emitBytes(emitBytes(
                     emitByte(exitJump.cs, OP_POP),
                     OP_GET_LOCAL, iterSlot), OP_GET_LOCAL, idxSlot),
                     OP_INDEX_GET), OP_SET_LOCAL, varSlot), OP_POP)),
                 loopStart, exitJump.offset)
        \* index < iterable.length
        condition(c, lengthConst, loopStart) ==
            IF lengthConst.cs = <<>> THEN c ELSE
            element(emitJump(emitByte(emitBytes(lengthConst.cs, OP_GET_PROPERTY,
                                                lengthConst.index), OP_LESS),
                             OP_JUMP_IF_FALSE),
                    loopStart)
        start(c) ==
            LET loopStart == Len(currentChunk(c).code)
                enter == [c EXCEPT ![k].loopStart = loopStart,
                                   ![k].loopDepth = c[k].scopeDepth,
                                   ![k].breakCount = 0]
            IN  condition(enter,
                          identifierConstant(
                              emitBytes(emitBytes(enter, OP_GET_LOCAL, idxSlot),
                                        OP_GET_LOCAL, iterSlot), "length"),
                          loopStart)
        hidden(c) ==
            IF c = <<>> THEN c
            ELSE start(addLocal(emitByte(addLocal(emitConstant(
                     addLocal(c, " iterable"), NUMBER_VAL(0)), " index"), OP_NIL),
                     node.varName))
    IN  hidden(compileNode(beginScope(cs), node.iterable))

compileBreak(cs) ==
    LET k == Len(cs)
        jump == emitJump(cs, OP_JUMP)
        store(array, i, offset) ==
            IF i < Len(array) THEN [array EXCEPT ![i + 1] = offset]
            ELSE Append(array, offset)
    IN  IF cs[k].loopStart = -1
        THEN [diagnostic(cs, "Can't use 'break' outside a loop.")
                 EXCEPT ![k].hadError = TRUE]
        ELSE IF cs[k].breakCount >= 256
        THEN [diagnostic(cs, "Too many break statements in loop.")
                 EXCEPT ![k].hadError = TRUE]
        ELSE [jump.cs EXCEPT
                 ![k].breakJumps = store(@, cs[k].breakCount, jump.offset),
                 ![k].breakCount = @ + 1,
                 \* the history kept with the function: the jump's operand
                 \* and the loopStart of the loop the break stands in
                 ![k].function.breaks =
                     Append(@, [operand |-> jump.offset,
                                loopStart |-> cs[k].loopStart])]

compileContinue(cs) ==
    IF cs[Len(cs)].loopStart = -1
    THEN [diagnostic(cs, "Can't use 'continue' outside a loop.")
             EXCEPT ![Len(cs)].hadError = TRUE]
    ELSE emitLoop(cs, cs[Len(cs)].loopStart)

\* Arm i of a match and the ones after it: the compiler and endJumps, the
\* operands of the jumps to the end of the match.
RECURSIVE compileArms(_, _, _, _, _)
compileArms(cs, arms, i, subjectSlot, endJumps) ==
    IF cs = <<>> \/ i > Len(arms) THEN [cs |-> cs, endJumps |-> endJumps]
    ELSE LET arm == arms[i]
             body(c) ==
                 IF arm.body.type = "NODE_BLOCK"
                 THEN emitByte(compileBlock(c, arm.body), OP_NIL)
                 ELSE compileNode(c, arm.body)
             next(c, endJump) ==
                 compileArms(c, arms, i + 1, subjectSlot, Append(endJumps, endJump))
             wildcard(c) ==
                 IF c = <<>> THEN [cs |-> c, endJumps |-> endJumps]
                 ELSE LET endJump == emitJump(c, OP_JUMP)
                      IN  next(endJump.cs, endJump.offset)
             popFalse(c, nextArm) ==
                 IF c = <<>> THEN [cs |-> c, endJumps |-> endJumps]
                 ELSE LET endJump == emitJump(c, OP_JUMP)
                      IN  next(emitByte(patchJump(endJump.cs, nextArm), OP_POP),
                               endJump.offset)
             popTrue(c) ==
                 IF c = <<>> THEN [cs |-> c, endJumps |-> endJumps]
                 ELSE LET nextArm == emitJump(emitByte(c, OP_EQUAL), OP_JUMP_IF_FALSE)
                      IN  popFalse(body(emitByte(nextArm.cs, OP_POP)), nextArm.offset)
         IN  IF arm.pattern.type = "NODE_NONE"
             THEN wildcard(body(cs))
             ELSE popTrue(compileNode(emitBytes(cs, OP_GET_LOCAL, subjectSlot),
                                      arm.pattern))

\* The history kept with the function: where the code of the match ends,
\* the slot addLocal gave its subject, and the match.
compileMatch(cs, node) ==
    LET noteMatch(c, subjectSlot) ==
            [c EXCEPT ![Len(c)].function.matches =
                Append(@, [end |-> Len(currentChunk(c).code),
                           subjectSlot |-> subjectSlot, node |-> node])]
        \* `compiler->scopeDepth--; compiler->localCount--`
        unwind(c) ==
            [c EXCEPT ![Len(c)].scopeDepth = @ - 1,
                      ![Len(c)].locals = SubSeq(@, 1, Len(@) - 1)]
        result(a, subjectSlot) ==
            IF a.cs = <<>> THEN a.cs
            ELSE
            noteMatch(unwind(emitByte(emitBytes(patchJumps(emitByte(a.cs, OP_NIL),
                                                           a.endJumps, 1),
                                                OP_SET_LOCAL, subjectSlot),
                                      OP_POP)),
                      subjectSlot)
        arms(c, subjectSlot) ==
            IF Len(node.arms) > 256
            THEN [diagnostic(c, "Too many match arms (max 256).")
                     EXCEPT ![Len(c)].hadError = TRUE]
            ELSE result(compileArms(c, node.arms, 1, subjectSlot, <<>>),
                        subjectSlot)
        subject(c) ==
            IF c = <<>> THEN c
            ELSE LET declared == addLocal(c, " match")
                 IN  arms(declared, Len(declared[Len(declared)].locals) - 1)
    IN  subject(compileNode(beginScope(cs), node.subject))

compileVarDecl(cs, node) ==
    LET declare(c) ==
            LET local == resolveLocal(c[Len(c)], node.name)
                u == resolveUpvalue(c, Len(c), node.name)
            IN  IF c[Len(c)].scopeDepth > 0
                THEN IF local # -1
                     THEN emitByte(emitBytes(c, OP_SET_LOCAL, local), OP_POP)
                     ELSE IF u.index # -1
                     THEN emitByte(emitBytes(u.cs, OP_SET_UPVALUE, u.index), OP_POP)
                     ELSE IF Len(c) > 1
                     THEN addLocal(u.cs, node.name)
                     ELSE LET k == identifierConstant(u.cs, node.name)
                          IN  emitByte(emitBytes(k.cs, OP_SET_GLOBAL, k.index), OP_POP)
                ELSE LET k == identifierConstant(c, node.name)
                     IN  emitBytes(k.cs, OP_DEFINE_GLOBAL, k.index)
        \* History of the declaration: how the name resolved where it was
        \* compiled, and the code and locals before and after.
        note(c, d) ==
            [d EXCEPT ![Len(d)].function.decls =
                Append(@, [name |-> node.name,
                           start |-> Len(cs[Len(cs)].function.code),
                           value |-> Len(c[Len(c)].function.code),
                           end |-> Len(d[Len(d)].function.code),
                           local |-> resolveLocal(c[Len(c)], node.name),
                           upvalue |-> resolveUpvalue(c, Len(c), node.name).index,
                           enclosed |-> Len(c) > 1,
                           scopeDepth |-> c[Len(c)].scopeDepth,
                           before |-> c[Len(c)].locals,
                           after |-> d[Len(d)].locals])]
        record(c) == IF c = <<>> THEN c ELSE note(c, declare(c))
    IN  record(compileNode(cs, node.initializer))

\* `x += e` as a statement: get, value, operator, set.  No Pop follows.
compileCompoundAssign(cs, node) ==
    LET local == resolveLocal(cs[Len(cs)], node.name)
        operator(c) == IF node.op = "TOKEN_PLUS_EQUAL" THEN emitByte(c, OP_ADD) ELSE c
        assign(o) ==
            IF local # -1 THEN emitBytes(o, OP_SET_LOCAL, local)
            ELSE compileVariable(o, astNewVariable(node.name), FALSE)
    IN  assign(operator(compileNode(compileVariable(cs, astNewVariable(node.name), TRUE),
                          node.value)))

\* The parameters become locals of the new compiler, from parameter i on.
RECURSIVE addParams(_, _, _)
addParams(cs, params, i) ==
    IF i > Len(params) THEN cs
    ELSE addParams(addLocal(cs, params[i]), params, i + 1)

\* One (isLocal, index) pair after OP_CLOSURE per upvalue, from upvalue i on.
RECURSIVE emitUpvalues(_, _, _)
emitUpvalues(cs, upvalues, i) ==
    IF i > Len(upvalues) THEN cs
    ELSE emitUpvalues(emitBytes(cs, IF upvalues[i].isLocal THEN 1 ELSE 0,
                                upvalues[i].index),
                      upvalues, i + 1)

\* The end of compileFunction: back to the enclosing compiler, which gets
\* the function as a constant and the OP_CLOSURE with its upvalue pairs.
emitClosure(c4) ==
    LET closure(k, child) ==
            emitUpvalues(emitBytes(k.cs, OP_CLOSURE, k.index), child.upvalues, 1)
    IN  closure(makeConstant(SubSeq(c4, 1, Len(c4) - 1),
                             FUNCTION_VAL(c4[Len(c4)].function)),
                c4[Len(c4)])

compileFunction(cs, node, type) ==
    LET signature(c0) ==
            beginScope([c0 EXCEPT ![Len(c0)].function.name = node.name,
                                  ![Len(c0)].function.arity = Len(node.params)])
        body(c2) ==
            IF node.body.type = "NODE_BLOCK"
            THEN compileStatements(c2, node.body.statements, 1)
            ELSE compileNode(c2, node.body)
    IN  emitClosure(emitReturn(body(addParams(signature(initCompiler(cs, type)),
                                              node.params, 1))))

compileFnDecl(cs, node) ==
    LET declare(c) ==
            IF c[Len(c)].scopeDepth > 0 THEN addLocal(c, node.name)
            ELSE LET k == identifierConstant(c, node.name)
                 IN  emitBytes(k.cs, OP_DEFINE_GLOBAL, k.index)
    IN  declare(compileFunction(cs, node, "TYPE_FUNCTION"))

compileReturn(cs, node) ==
    LET value(c) ==
            IF node.value.type = "NODE_NONE" THEN emitByte(c, OP_NIL)
            ELSE compileNode(c, node.value)
    IN  emitByte(value(IF cs[Len(cs)].type = "TYPE_SCRIPT"
                       THEN diagnostic(cs, "Can't return from top-level code.")
                       ELSE cs),
                 OP_RETURN)

compileAllow(cs, node) ==
    LET k == makeConstant(cs, STRING_VAL(node.target))
    IN  emitByte(emitByte(emitByte(k.cs, OP_ALLOW), node.permType), k.index)

\* The name the module is bound to: the alias, or the path from its last
\* '/' on, without the extension.
compileImport(cs, node) ==
    LET path == Chars[node.path]
        base == SubSeq(path, lastIndexOf(path, "/") + 1, Len(path))
        stem == IF Len(base) > 6 /\ endsWith(base, Extension)
                THEN SubSeq(base, 1, Len(base) - 6)
                ELSE base
        modName == IF node.alias # "" THEN node.alias ELSE Cat(stem)
        emit(pathConst, nameConst) ==
            emitByte(emitByte(emitByte(nameConst.cs, OP_IMPORT), pathConst.index),
                     nameConst.index)
        name(pathConst) ==
            emit(pathConst, makeConstant(pathConst.cs, STRING_VAL(modName)))
    IN  name(makeConstant(cs, STRING_VAL(node.path)))

compileNode(cs, node) ==
    IF cs = <<>> THEN cs ELSE
    CASE node.type = "NODE_LITERAL" -> compileLiteral(cs, node)
      [] node.type = "NODE_VARIABLE" -> compileVariable(cs, node, TRUE)
      [] node.type = "NODE_BINARY" -> compileBinary(cs, node)
      [] node.type = "NODE_CALL" -> compileCall(cs, node)
      [] node.type = "NODE_LIST" -> compileList(cs, node)
      [] node.type = "NODE_DOT" -> compileDot(cs, node)
      [] node.type = "NODE_COMPOUND_ASSIGN" ->
            compileCompoundAssign(cs, node)
      [] node.type = "NODE_EXPRESSION_STMT" ->
            emitByte(compileNode(cs, node.expression), OP_POP)
      [] node.type = "NODE_BLOCK" -> compileBlock(cs, node)
      [] node.type = "NODE_VAR_DECL" -> compileVarDecl(cs, node)
      [] node.type = "NODE_FN_DECL" -> compileFnDecl(cs, node)
      [] node.type = "NODE_IF" -> compileIf(cs, node)
      [] node.type = "NODE_WHILE" -> compileWhile(cs, node)
      [] node.type = "NODE_FOR" -> compileFor(cs, node)
      [] node.type = "NODE_BREAK" -> compileBreak(cs)
      [] node.type = "NODE_CONTINUE" -> compileContinue(cs)
      [] node.type = "NODE_RETURN" -> compileReturn(cs, node)
      [] node.type = "NODE_ALLOW" -> compileAllow(cs, node)
      [] node.type = "NODE_ON_FAILURE" -> cs
      [] node.type = "NODE_IMPORT" -> compileImport(cs, node)
      [] node.type = "NODE_MATCH" -> compileMatch(cs, node)
      [] node.type = "NODE_PROGRAM" ->
            compileStatements(cs, node.statements, 1)

\* compile(): the script function, or NULL (ok is FALSE) after a compile
\* error, and what the compilers wrote to stderr.
compile(program) ==
    LET endCompiler(c) ==
            IF c[1].hadError THEN [ok |-> FALSE, stderr |-> c[1].stderr]
            ELSE [ok |-> TRUE, function |-> c[1].function,
                  stderr |-> c[1].stderr]
    IN  endCompiler(emitReturn(compileNode(initCompiler(<<>>, "TYPE_SCRIPT"), program)))

(***************************************************************************)
(* C strings.  A string is a TLA+ string; where the code walks its bytes   *)
(* (globMatch) the string is the sequence of its one-byte strings.         *)
(***************************************************************************)
GlobBytes == {"/", "a", "*"}

RECURSIVE SeqsUpTo(_, _)
SeqsUpTo(S, n) ==
    IF n = 0 THEN {<<>>}
    ELSE LET shorter == SeqsUpTo(S, n - 1)
         IN  shorter \cup {Append(q, b) : q \in shorter, b \in S}

ByteStrings == SeqsUpTo(GlobBytes, MaxGlobLen)

BytesOf == [s \in {Cat(q) : q \in ByteStrings} |->
               CHOOSE q \in ByteStrings : Cat(q) = s]

Bytes(s) == BytesOf[s]

(***************************************************************************)
(* The permission set (permission.c).                                      *)
(***************************************************************************)
initPermissions == [permissions |-> <<>>, allowAll |-> FALSE]

\* A set that keeps only the entry added last.
replacePermission(set, type, target) ==
    [set EXCEPT !.permissions = <<[type |-> type, target |-> target]>>]

addPermission(set, type, target) ==
    [set EXCEPT !.permissions = Append(@, [type |-> type, target |-> target])]

\* A globMatch that does not skip the stars left at the end of the pattern
\* uses this in place of skipStars.
keepStars(pattern) == pattern

\* `while (*pattern == '*') pattern++;`
RECURSIVE skipStars(_)
skipStars(pattern) ==
    IF pattern # <<>> /\ Head(pattern) = "*" THEN skipStars(Tail(pattern))
    ELSE pattern

RECURSIVE globMatch(_, _)
RECURSIVE globMatchScan(_, _)
globMatch(pattern, text) ==
    IF pattern # <<>> /\ text # <<>>
    THEN IF Head(pattern) = "*"
         THEN IF Tail(pattern) = <<>> THEN TRUE
              ELSE globMatchScan(Tail(pattern), text)
         ELSE IF Head(pattern) # Head(text) THEN FALSE
         ELSE globMatch(Tail(pattern), Tail(text))
    ELSE skipStars(pattern) = <<>> /\ text = <<>>

\* The inner loop `while (*text) { if (globMatch(pattern, text)) ...; text++; }`.
globMatchScan(pattern, text) ==
    IF text = <<>> THEN FALSE
    ELSE IF globMatch(pattern, text) THEN TRUE
    ELSE globMatchScan(pattern, Tail(text))

\* A loop that does not compare the type of an entry with the queried type.
RECURSIVE anyTypeFrom(_, _, _, _)
anyTypeFrom(set, type, target, i) ==
    IF i > Len(set.permissions) THEN FALSE
    ELSE IF globMatch(Bytes(set.permissions[i].target), Bytes(target)) THEN TRUE
    ELSE anyTypeFrom(set, type, target, i + 1)

\* The loop of hasPermission from entry i (1-based) on.
RECURSIVE hasPermissionFrom(_, _, _, _)
hasPermissionFrom(set, type, target, i) ==
    IF i > Len(set.permissions) THEN FALSE
    ELSE IF set.permissions[i].type = type
            /\ globMatch(Bytes(set.permissions[i].target), Bytes(target))
    THEN TRUE
    ELSE hasPermissionFrom(set, type, target, i + 1)

hasPermission(set, type, target) ==
    IF set.allowAll THEN TRUE ELSE hasPermissionFrom(set, type, target, 1)

permissionTypeName(type) ==
    CASE type = PERM_EXEC -> "exec"
      [] type = PERM_NET -> "net"
      [] type = PERM_READ -> "read"
      [] type = PERM_WRITE -> "write"
      [] type = PERM_ENV -> "env"
      [] OTHER -> "unknown"

(***************************************************************************)
(* The state of the program.                                               *)
(*                                                                         *)
(* vm->stack and vm->frames are arrays that keep what was last written to  *)
(* a slot; stackTop and frameCount are indices into them.  The heap is a   *)
(* sequence of objects, a pointer to an object is its index and NULL is 0. *)
(* ip is a pointer into the code of the function of closure ip.chunk.      *)
(***************************************************************************)
VARIABLES
    frames, frameCount, stack, stackTop, globals, heap, openUpvalues,
    permissions, handlers, hasError, currentError, baseFrameCount,
    modules,    \* vm->modules, the module cache
    objects,    \* the list vm->objects, the object allocated last first
    marked,     \* the objects whose isMarked is set
    grayStack,  \* vm->grayStack[0 .. grayCount - 1]
    strings,    \* vm->strings, the intern table
    stress,     \* the build collects at every allocation (DEBUG_STRESS_GC)
    untilGC,    \* allocations left until bytesAllocated exceeds nextGC; 0: many
    collected,  \* history: the collections of the last step
    compiling,  \* the functions under compilation, innermost last
    globalIC,   \* vm->globalIC: the filled slots, by the name they hold
    globalsTable, \* vm->globals: capacity, count and the deleted entries
    steps,      \* instructions executed where they are counted
    ip,         \* the register ip of the innermost activation of run()
    pc,         \* where the process is: "idle", "dispatch", "check", ...
    cstack,     \* the natives suspended in vmCallFunction, innermost last
    verb,       \* how main() was started: "run", "run --allow-all" or "repl"
    runs,       \* interpret() calls so far
    script,     \* the script handed to the last interpret()
    result,     \* what the last interpret() returned
    exitCode,   \* the exit status of the process, once it has exited
    out,        \* what was printed on stdout, one entry per print call
    err,        \* the messages written to stderr
    ext,        \* the operations performed outside the process
    pushes,     \* history: handlers pushed so far
    fired,      \* history: the push numbers of the handlers that fired
    arg, ret    \* input and result of the function applied by Glob/Query

vars == <<frames, frameCount, stack, stackTop, globals, heap, openUpvalues,
          permissions, handlers, hasError, currentError, baseFrameCount,
          modules, objects, marked, grayStack, strings, stress, untilGC,
          collected, compiling, globalIC, globalsTable, steps, ip, pc, cstack, verb, runs, script, result, exitCode, out, err, ext,
          pushes, fired, arg, ret>>

\* The VM and the process around it as one record, for the operators below.
VM ==
    [frames |-> frames, frameCount |-> frameCount, stack |-> stack,
     stackTop |-> stackTop, globals |-> globals, heap |-> heap,
     openUpvalues |-> openUpvalues, permissions |-> permissions,
     handlers |-> handlers, hasError |-> hasError,
     currentError |-> currentError, baseFrameCount |-> baseFrameCount,
     modules |-> modules, objects |-> objects, marked |-> marked,
     grayStack |-> grayStack, strings |-> strings, stress |-> stress,
     untilGC |-> untilGC, collected |-> collected, compiling |-> compiling,
     globalIC |-> globalIC, globalsTable |-> globalsTable,
     ip |-> ip, pc |-> pc, cstack |-> cstack, result |-> result,
     out |-> out, err |-> err, ext |-> ext, pushes |-> pushes,
     fired |-> fired]

Install(m) ==
    /\ frames' = m.frames
    /\ frameCount' = m.frameCount
    /\ stack' = m.stack
    /\ stackTop' = m.stackTop
    /\ globals' = m.globals
    /\ heap' = m.heap
    /\ openUpvalues' = m.openUpvalues
    /\ permissions' = m.permissions
    /\ handlers' = m.handlers
    /\ hasError' = m.hasError
    /\ currentError' = m.currentError
    /\ baseFrameCount' = m.baseFrameCount
    /\ modules' = m.modules
    /\ objects' = m.objects
    /\ marked' = m.marked
    /\ grayStack' = m.grayStack
    /\ strings' = m.strings
    /\ untilGC' = m.untilGC
    /\ collected' = m.collected
    /\ compiling' = m.compiling
    /\ globalIC' = m.globalIC
    /\ globalsTable' = m.globalsTable
    /\ ip' = m.ip
    /\ pc' = m.pc
    /\ cstack' = m.cstack
    /\ result' = m.result
    /\ out' = m.out
    /\ err' = m.err
    /\ ext' = m.ext
    /\ pushes' = m.pushes
    /\ fired' = m.fired

\* Where the code reads or writes outside an array, or through a pointer
\* that was never set: the behaviour is undefined.
undefined(m) == [m EXCEPT !.pc = "undefined"]

(***************************************************************************)
(* The collector (memory.c).  An object is allocated while it is on the    *)
(* list vm->objects; sweep takes the unmarked objects off the list and     *)
(* frees them, and the memory of a freed object is not looked at again.    *)
(* Where the collector is at work, strings and functions are heap objects  *)
(* like the others, and the keys of a table are string objects.            *)
(***************************************************************************)
RangeOf(q) == {q[i] : i \in 1..Len(q)}

\* The object has not been freed.
allocated(m, object) == object \in RangeOf(m.objects)

markObject(m, object) ==
    IF m.pc = "undefined" \/ object = 0 THEN m
    ELSE IF ~allocated(m, object) THEN undefined(m)
    ELSE IF object \in m.marked THEN m
    ELSE [m EXCEPT !.marked = @ \cup {object}, !.grayStack = Append(@, object)]

markValue(m, value) == IF IS_HEAP(value) THEN markObject(m, value.id) ELSE m

RECURSIVE markArray(_, _, _)
markArray(m, array, i) ==
    IF i > Len(array) THEN m ELSE markArray(markValue(m, array[i]), array, i + 1)

\* The entries of a table from the lowest of keys on.
RECURSIVE markEntries(_, _, _)
markEntries(m, table, keys) ==
    IF keys = {} THEN m
    ELSE LET key == CHOOSE k \in keys : \A j \in keys : k <= j
         IN  markEntries(markValue(markObject(m, key), table[key]), table,
                         keys \ {key})

\* table.c markTable: the key and the value of every entry.
markTable(m, table) == markEntries(m, table, DOMAIN table)

\* `for (Value* slot = vm->stack; slot < vm->stackTop; slot++)`
RECURSIVE markStack(_, _)
markStack(m, slot) ==
    IF slot >= m.stackTop THEN m
    ELSE markStack(markValue(m, m.stack[slot]), slot + 1)

RECURSIVE markFrames(_, _)
markFrames(m, i) ==
    IF i >= m.frameCount THEN m
    ELSE markFrames(markObject(m, m.frames[i].closure), i + 1)

RECURSIVE markOpenUpvalues(_, _)
markOpenUpvalues(m, upvalue) ==
    IF upvalue = 0 \/ m.pc = "undefined" THEN m
    ELSE markOpenUpvalues(markObject(m, upvalue), m.heap[upvalue].next)

markRoots(m) ==
    markTable(
        markTable(
            markOpenUpvalues(markFrames(markStack(m, 0), 0), m.openUpvalues),
            m.globals),
        m.modules)

RECURSIVE markObjects(_, _, _)
markObjects(m, array, i) ==
    IF i > Len(array) THEN m
    ELSE markObjects(markObject(m, array[i]), array, i + 1)

\* A trace that follows no reference out of an object.
blackenNothing(m, object) == m

blackenObject(m, object) ==
    LET o == m.heap[object]
    IN  CASE o.kind = "closure" ->
                markObjects(markObject(m, o.function), o.upvalues, 1)
          [] o.kind = "function" -> markArray(markObject(m, o.name), o.constants, 1)
          [] o.kind = "upvalue" -> markValue(m, o.closed)
          [] o.kind = "list" -> markArray(m, o.items, 1)
          [] o.kind = "map" -> markTable(m, o.table)
          [] o.kind \in {"native", "string"} -> m

RECURSIVE traceReferences(_)
traceReferences(m) ==
    IF m.grayStack = <<>> \/ m.pc = "undefined" THEN m
    ELSE traceReferences(
            blackenObject([m EXCEPT !.grayStack = SubSeq(@, 1, Len(@) - 1)],
                          m.grayStack[Len(m.grayStack)]))

\* table.c tableRemoveWhite on vm->strings: the entries whose key is not
\* marked are deleted.
tableRemoveWhite(m) == [m EXCEPT !.strings = @ \cap m.marked]

\* A sweep that leaves the mark bits of the objects it keeps.
sweepKeepMarks(m) ==
    LET isMarked(object) == object \in m.marked
    IN  [m EXCEPT !.objects = SelectSeq(@, isMarked)]

sweep(m) ==
    LET isMarked(object) == object \in m.marked
    IN  [m EXCEPT !.objects = SelectSeq(@, isMarked),
                  !.marked = @ \ RangeOf(m.objects)]

\* What a collection starts from.
Roots(m) ==
    [stack |-> m.stack, stackTop |-> m.stackTop, frames |-> m.frames,
     frameCount |-> m.frameCount, openUpvalues |-> m.openUpvalues,
     globals |-> m.globals, modules |-> m.modules, heap |-> m.heap,
     objects |-> m.objects, strings |-> m.strings,
     compiling |-> m.compiling]

collectGarbage(m) ==
    LET finish(after) ==
            IF after.pc = "undefined" THEN undefined(m)
            ELSE [after EXCEPT !.collected =
                     Append(@, [before |-> Roots(m), objects |-> after.objects,
                                strings |-> after.strings])]
    IN  finish(sweep(tableRemoveWhite(traceReferences(markRoots(m)))))

\* memory.h GROW_CAPACITY
GROW_CAPACITY(capacity) == IF capacity < 8 THEN 8 ELSE capacity * 2

\* The part of reallocate() that may collect, for a request that grows.
\* Every allocation collects in the stress build; otherwise the one with
\* which bytesAllocated gets above nextGC does, and nextGC is then far.
reallocate(m) ==
    IF m.stress \/ m.untilGC = 1 THEN [collectGarbage(m) EXCEPT !.untilGC = 0]
    ELSE IF m.untilGC > 1 THEN [m EXCEPT !.untilGC = @ - 1]
    ELSE m

(***************************************************************************)
(* Heap objects (object.c).                                                *)
(***************************************************************************)
SelfClosed == -1    \* an upvalue's location when it is &upvalue->closed

newClosure(function) ==
    [kind |-> "closure", function |-> function,
     upvalues |-> [i \in 1..function.upvalueCount |-> 0]]

newUpvalue(slot) ==
    [kind |-> "upvalue", location |-> slot, closed |-> NIL_VAL, next |-> 0]

newList == [kind |-> "list", items |-> <<>>, capacity |-> 0]

newMap == [kind |-> "map", table |-> <<>>]

\* table.c tableSet / tableGet on a map's table, a function from keys.
tableSet(table, key, value) ==
    [k \in DOMAIN table \cup {key} |-> IF k = key THEN value ELSE table[k]]

tableHas(table, key) == key \in DOMAIN table

\* table.c adjusts the capacity when the new entry takes the table over
\* three quarters of it.
tableGrows(count, capacity) == (count + 1) * 4 > capacity * 3

(***************************************************************************)
(* The entry array of vm->globals (table.c), as far as the inline cache    *)
(* sees it: the capacity, the count of used entries (tombstones included)  *)
(* and, for each deleted key whose tombstone is still in the array, the    *)
(* value its entry holds.  The names of the modelled scripts fall into     *)
(* different entries and into different slots of the cache.                *)
(***************************************************************************)
initTable == [capacity |-> 0, count |-> 0, dead |-> <<>>]

\* The value tableDelete leaves in the entry it turns into a tombstone.
Tombstone == BOOL_VAL(TRUE)

\* tableSet on the array: the table grows first if it has to, which drops
\* the tombstones; a new key takes its own tombstone if there is one.
tableSetEntry(t, live, key) ==
    LET grown == IF tableGrows(t.count, t.capacity)
                 THEN [capacity |-> GROW_CAPACITY(t.capacity),
                       count |-> Cardinality(live), dead |-> <<>>]
                 ELSE t
    IN  IF key \in live THEN grown
        ELSE IF key \in DOMAIN grown.dead
        THEN [grown EXCEPT !.dead = [k \in DOMAIN @ \ {key} |-> @[k]]]
        ELSE [grown EXCEPT !.count = @ + 1]

\* tableDelete on the array: the entry stays, as a tombstone.
tableDeleteEntry(t, live, key) ==
    IF key \in live
    THEN [t EXCEPT !.dead = [k \in DOMAIN @ \cup {key} |->
                                IF k = key THEN Tombstone ELSE @[k]]]
    ELSE t

\* The array after initVM has defined count globals.
RECURSIVE definedGlobals(_)
definedGlobals(count) ==
    IF count = 0 THEN initTable
    ELSE tableSetEntry(definedGlobals(count - 1), 1..(count - 1), count)

\* tableSet(&vm->globals, name, value)
setGlobal(m, name, value) ==
    [m EXCEPT !.globals = tableSet(@, name, value),
              !.globalsTable = tableSetEntry(@, DOMAIN m.globals, name)]

\* tableDelete(&vm->globals, name)
deleteGlobal(m, name) ==
    [m EXCEPT !.globals = [k \in DOMAIN @ \ {name} |-> @[k]],
              !.globalsTable = tableDeleteEntry(@, DOMAIN m.globals, name)]

\* allocateObject where reallocate does not collect: the new object is
\* linked in at the head of vm->objects.  The scripts that the VM is stepped
\* through instruction by instruction allocate far less than nextGC.
allocateObject(m, object) ==
    [m EXCEPT !.heap = Append(@, object),
              !.objects = <<Len(m.heap) + 1>> \o @]

\* allocateObject with the collection that its reallocate may start.
allocate(m, object) ==
    LET link(m1) == allocateObject(m1, object)
    IN  link(reallocate(m))

IS_OBJ_KIND(m, v, kind) ==
    IS_HEAP(v) /\ v.id \in 1..Len(m.heap) /\ m.heap[v.id].kind = kind

IS_CLOSURE(m, v) == IS_OBJ_KIND(m, v, "closure")
IS_LIST(m, v) == IS_OBJ_KIND(m, v, "list")
IS_MAP(m, v) == IS_OBJ_KIND(m, v, "map")

(***************************************************************************)
(* Stack operations and errors (vm.c).                                     *)
(***************************************************************************)
\* `*vm->stackTop++ = value`
rawPush(m, value) ==
    [m EXCEPT !.stack[m.stackTop] = value, !.stackTop = @ + 1]

push(m, value) ==
    IF m.stackTop >= STACK_MAX
    THEN [m EXCEPT !.err = Append(@, "Stack overflow."),
                   !.stackTop = 0, !.frameCount = 0]
    ELSE rawPush(m, value)

vmPush(m, value) ==
    IF m.stackTop >= STACK_MAX
    THEN [m EXCEPT !.err = Append(@, "Stack overflow.")]
    ELSE rawPush(m, value)

\* pop() without its result, which is m.stack[m.stackTop - 1] before it.
pop(m) == [m EXCEPT !.stackTop = @ - 1]

peek(m, distance) == m.stack[m.stackTop - 1 - distance]

\* The message, then one trace line per live frame (not kept), then the
\* stack and the frames are dropped.  Handlers and upvalues are not touched.
runtimeError(m, message) ==
    [m EXCEPT !.err = Append(@, message), !.stackTop = 0, !.frameCount = 0]

errorMap(message, type) ==
    [kind |-> "map",
     table |-> tableSet(tableSet(<<>>, "message", STRING_VAL(message)),
                        "type", STRING_VAL(type))]

raiseError(m, message, type) ==
    LET id == Len(m.heap) + 1
        m1 == pop(push(allocateObject(m, errorMap(message, type)), OBJ_VAL(id)))
    IN  [m1 EXCEPT !.hasError = TRUE, !.currentError = OBJ_VAL(id)]

vmRaiseError(m, message, type) ==
    LET id == Len(m.heap) + 1
        m1 == pop(vmPush(allocateObject(m, errorMap(message, type)), OBJ_VAL(id)))
    IN  [m1 EXCEPT !.hasError = TRUE, !.currentError = OBJ_VAL(id)]

(***************************************************************************)
(* Natives.  A native gets the VM, argCount and args = stackTop - argCount *)
(* and returns a value; here it returns the VM after it and the value.     *)
(* status stands for what the outside world answers: 0 is success.       *)
(***************************************************************************)
NativeArity ==
    [print |-> -1, exec |-> -1, read |-> 1, write |-> 2, env |-> 1,
     map_fn |-> 2, parallel_exec |-> 1]
        @@ ("fs.exists" :> 1) @@ ("fs.remove" :> 1) @@ ("net.resolve" :> 1)
        @@ ("proc.exec" :> -1)

args(m, argCount, i) == m.stack[m.stackTop - argCount + i]

external(m, op, target) ==
    [m EXCEPT !.ext = Append(@, [op |-> op, target |-> target])]

printNative(m, argCount) ==
    [m |-> [m EXCEPT !.out = Append(@, [i \in 1..argCount |-> args(m, argCount, i - 1)])],
     result |-> NIL_VAL]

execNative(m, argCount, status) ==
    IF argCount < 1 \/ ~IS_STRING(args(m, argCount, 0))
    THEN [m |-> m, result |-> NIL_VAL]
    ELSE LET command == args(m, argCount, 0).s
         IN  IF ~hasPermission(m.permissions, PERM_EXEC, command)
             THEN [m |-> raiseError(m, "Permission denied: exec " \o command,
                                    "permission"),
                   result |-> NIL_VAL]
             ELSE LET m1 == external(m, "processExec", command)
                      id == Len(m1.heap) + 1
                      map == [kind |-> "map",
                              table |-> tableSet(<<>>, "exitCode",
                                                 NUMBER_VAL(status))]
                      m2 == pop(rawPush(allocateObject(m1, map), OBJ_VAL(id)))
                  IN  [m |-> IF status # 0
                             THEN raiseError(m2, "Command failed: " \o command,
                                             "exec")
                             ELSE m2,
                       result |-> OBJ_VAL(id)]

readFileNative(m, argCount, status) ==
    IF argCount # 1 \/ ~IS_STRING(args(m, argCount, 0))
    THEN [m |-> m, result |-> NIL_VAL]
    ELSE LET path == args(m, argCount, 0).s
         IN  IF ~hasPermission(m.permissions, PERM_READ, path)
             THEN [m |-> raiseError(m, "Permission denied: read " \o path,
                                    "permission"),
                   result |-> NIL_VAL]
             ELSE [m |-> external(m, "fopen rb", path),
                   result |-> IF status # 0 THEN NIL_VAL
                              ELSE STRING_VAL("contents")]

writeFileNative(m, argCount, status) ==
    IF argCount # 2 \/ ~IS_STRING(args(m, argCount, 0))
       \/ ~IS_STRING(args(m, argCount, 1))
    THEN [m |-> m, result |-> BOOL_VAL(FALSE)]
    ELSE LET path == args(m, argCount, 0).s
         IN  IF ~hasPermission(m.permissions, PERM_WRITE, path)
             THEN [m |-> raiseError(m, "Permission denied: write " \o path,
                                    "permission"),
                   result |-> BOOL_VAL(FALSE)]
             ELSE [m |-> external(m, "fopen wb", path),
                   result |-> BOOL_VAL(status = 0)]

envNative(m, argCount, status) ==
    IF argCount # 1 \/ ~IS_STRING(args(m, argCount, 0))
    THEN [m |-> m, result |-> NIL_VAL]
    ELSE LET name == args(m, argCount, 0).s
         IN  IF ~hasPermission(m.permissions, PERM_ENV, name)
             THEN [m |-> raiseError(m, "Permission denied: env " \o name,
                                    "permission"),
                   result |-> NIL_VAL]
             ELSE [m |-> external(m, "getenv", name),
                   result |-> IF status # 0 THEN NIL_VAL
                              ELSE STRING_VAL("value")]

fsExistsNative(m, argCount, status) ==
    IF argCount # 1 \/ ~IS_STRING(args(m, argCount, 0))
    THEN [m |-> m, result |-> NIL_VAL]
    ELSE [m |-> external(m, "access", args(m, argCount, 0).s),
          result |-> BOOL_VAL(status = 0)]

fsRemoveNative(m, argCount, status) ==
    IF argCount # 1 \/ ~IS_STRING(args(m, argCount, 0))
    THEN [m |-> m, result |-> NIL_VAL]
    ELSE LET path == args(m, argCount, 0).s
         IN  IF ~hasPermission(m.permissions, PERM_WRITE, path)
             THEN [m |-> vmRaiseError(m, "Permission denied: write", "permission"),
                   result |-> NIL_VAL]
             ELSE [m |-> external(m, "remove", path),
                   result |-> BOOL_VAL(status = 0)]

netResolveNative(m, argCount, status) ==
    IF argCount # 1 \/ ~IS_STRING(args(m, argCount, 0))
    THEN [m |-> m, result |-> NIL_VAL]
    ELSE LET hostname == args(m, argCount, 0).s
         IN  IF ~hasPermission(m.permissions, PERM_NET, hostname)
             THEN [m |-> vmRaiseError(m, "Permission denied: net " \o hostname,
                                      "permission"),
                   result |-> NIL_VAL]
             ELSE LET m1 == external(m, "getaddrinfo", hostname)
                      id == Len(m1.heap) + 1
                      list == [kind |-> "list", items |-> <<STRING_VAL("ip")>>]
                  IN  IF status # 0
                      THEN [m |-> vmRaiseError(m1, "DNS resolution failed", "net"),
                            result |-> NIL_VAL]
                      ELSE [m |-> pop(vmPush(allocateObject(m1, list), OBJ_VAL(id))),
                            result |-> OBJ_VAL(id)]

procExecNative(m, argCount, status) ==
    IF argCount < 1 \/ ~IS_STRING(args(m, argCount, 0))
    THEN [m |-> m, result |-> NIL_VAL]
    ELSE LET command == args(m, argCount, 0).s
         IN  IF ~hasPermission(m.permissions, PERM_EXEC, command)
             THEN [m |-> vmRaiseError(m, "Permission denied: exec " \o command,
                                      "permission"),
                   result |-> NIL_VAL]
             ELSE LET m1 == external(m, "processExec", command)
                      id == Len(m1.heap) + 1
                      map == [kind |-> "map",
                              table |-> tableSet(<<>>, "code", NUMBER_VAL(status))]
                      m2 == pop(vmPush(allocateObject(m1, map), OBJ_VAL(id)))
                  IN  IF status # 0
                      THEN [m |-> vmRaiseError(m2, "Command failed: " \o command,
                                               "exec"),
                            result |-> NIL_VAL]
                      ELSE [m |-> m2, result |-> OBJ_VAL(id)]

\* A validation that looks at command i alone.
validateOne(m, items, i) ==
    IF i > Len(items) THEN [answer |-> "ok", m |-> m]
    ELSE IF ~IS_STRING(items[i]) THEN [answer |-> "nil", m |-> m]
    ELSE IF ~hasPermission(m.permissions, PERM_EXEC, items[i].s)
    THEN [answer |-> "denied",
          m |-> [m EXCEPT !.err = Append(@, "Permission denied: exec \"" \o items[i].s \o "\"")]]
    ELSE [answer |-> "ok", m |-> m]

\* parallel.c: the validation loop from command i (1-based) on.  The answer
\* is "ok", "nil" (a command is not a string) or "denied".
RECURSIVE parallelValidate(_, _, _)
parallelValidate(m, items, i) ==
    IF i > Len(items) THEN [answer |-> "ok", m |-> m]
    ELSE IF ~IS_STRING(items[i]) THEN [answer |-> "nil", m |-> m]
    ELSE IF ~hasPermission(m.permissions, PERM_EXEC, items[i].s)
    THEN [answer |-> "denied",
          m |-> [m EXCEPT !.err = Append(@, "Permission denied: exec \"" \o items[i].s \o "\"")]]
    ELSE parallelValidate(m, items, i + 1)

\* One thread per command runs processExec; the result maps are built once
\* all threads are joined.
RECURSIVE parallelSpawn(_, _, _)
parallelSpawn(m, items, i) ==
    IF i > Len(items) THEN m
    ELSE parallelSpawn(external(m, "processExec", items[i].s), items, i + 1)

parallelExec(m, argCount, status) ==
    IF argCount < 1 \/ ~IS_LIST(m, args(m, argCount, 0))
    THEN [m |-> m, result |-> NIL_VAL]
    ELSE LET items == m.heap[args(m, argCount, 0).id].items
             count == Len(items)
             v == parallelValidate(m, items, 1)
         IN  IF count <= 0
             THEN [m |-> allocateObject(m, newList), result |-> OBJ_VAL(Len(m.heap) + 1)]
             ELSE IF v.answer # "ok" THEN [m |-> v.m, result |-> NIL_VAL]
             ELSE LET m1 == parallelSpawn(m, items, 1)
                      results == Len(m1.heap) + 1
                      maps == [i \in 1..count |->
                                 [kind |-> "map",
                                  table |-> tableSet(<<>>, "exitCode",
                                                     NUMBER_VAL(status))]]
                      m2 == [m1 EXCEPT
                               !.heap = (@ \o << [kind |-> "list",
                                                  items |-> [i \in 1..count |->
                                                               OBJ_VAL(results + i)]] >>)
                                        \o maps,
                               !.stack = [@ EXCEPT ![m1.stackTop] = OBJ_VAL(results),
                                                   ![m1.stackTop + 1] =
                                                       OBJ_VAL(results + count)]]
                  IN  [m |-> m2, result |-> OBJ_VAL(results)]

\* native->function(vm, argCount, args) for the native called name.  map_fn
\* gets here only from vmCallFunction, with one argument.
callNative(m, name, argCount, status) ==
    CASE name = "print" -> printNative(m, argCount)
      [] name = "exec" -> execNative(m, argCount, status)
      [] name = "read" -> readFileNative(m, argCount, status)
      [] name = "write" -> writeFileNative(m, argCount, status)
      [] name = "env" -> envNative(m, argCount, status)
      [] name = "fs.exists" -> fsExistsNative(m, argCount, status)
      [] name = "fs.remove" -> fsRemoveNative(m, argCount, status)
      [] name = "net.resolve" -> netResolveNative(m, argCount, status)
      [] name = "proc.exec" -> procExecNative(m, argCount, status)
      [] name = "parallel_exec" -> parallelExec(m, argCount, status)
      [] name = "map_fn" -> [m |-> m, result |-> NIL_VAL]

(***************************************************************************)
(* Calls (vm.c).                                                           *)
(***************************************************************************)
frame(m) == m.frames[m.frameCount - 1]

\* LOAD_FRAME()
LOAD_FRAME(m) ==
    IF m.frameCount < 1 THEN undefined(m)
    ELSE [m EXCEPT !.ip = m.frames[m.frameCount - 1].ip]

\* STORE_FRAME()
STORE_FRAME(m) == [m EXCEPT !.frames[m.frameCount - 1].ip = m.ip]

callClosure(m, closure, argCount) ==
    IF argCount # m.heap[closure].function.arity
    THEN [m |-> runtimeError(m, "Expected arguments."), ok |-> FALSE]
    ELSE IF m.frameCount = FRAMES_MAX
    THEN [m |-> runtimeError(m, "Stack overflow."), ok |-> FALSE]
    ELSE [m |-> [m EXCEPT !.frames[m.frameCount] =
                              [closure |-> closure,
                               ip |-> [chunk |-> closure, off |-> 0],
                               slots |-> m.stackTop - argCount - 1],
                          !.frameCount = @ + 1],
          ok |-> TRUE]

\* The end of callValue for a native: the callee and the arguments are
\* dropped and the result pushed; Call then checks for a raised error.
callValueTail(m, argCount, value) ==
    IF m.stackTop - (argCount + 1) < 0 THEN undefined(m)
    ELSE [push([m EXCEPT !.stackTop = @ - (argCount + 1)], value)
             EXCEPT !.pc = "check"]

\* listAppend where growing does not collect: the items grow from 0 to 8
\* and then double, and the value is stored at the end.
appendItem(m, list, value) ==
    LET grown == m.heap[list].capacity < Len(m.heap[list].items) + 1
    IN  IF ~allocated(m, list) THEN undefined(m)
        ELSE [m EXCEPT !.heap[list].items = Append(@, value),
                       !.heap[list].capacity =
                           IF grown THEN GROW_CAPACITY(@) ELSE @]

\* listAppend: the list itself is not looked for among the roots by the
\* collection that growing may start.
listAppend(m, list, value) ==
    LET grown == m.heap[list].capacity < Len(m.heap[list].items) + 1
        store(m1) == appendItem(m1, list, value)
    IN  IF grown THEN store(reallocate(m)) ELSE store(m)

RECURSIVE mapFnLoop(_, _)
RECURSIVE mapFnAfter(_, _, _)

\* The body of mapFnNative's loop from element ctx.i (0-based) on, up to
\* where vmCallFunction enters run() for a closure; ctx is then suspended
\* on cstack with the baseFrameCount to restore.
mapFnLoop(m, ctx) ==
    LET items == m.heap[ctx.list].items
    IN  IF ctx.i < Len(items)
        THEN LET m1 == rawPush(rawPush(m, ctx.fn), items[ctx.i + 1])
             IN  IF IS_NATIVE(ctx.fn)
                 THEN LET r == callNative(m1, ctx.fn.name, 1, ctx.status)
                      IN  mapFnAfter([r.m EXCEPT !.stackTop = @ - 2], ctx, r.result)
                 ELSE IF IS_CLOSURE(m1, ctx.fn)
                 THEN LET c == callClosure(m1, ctx.fn.id, 1)
                      IN  IF ~c.ok
                          THEN mapFnAfter([c.m EXCEPT !.stackTop = @ - 2], ctx, NIL_VAL)
                          ELSE [c.m EXCEPT
                                  !.cstack = Append(@, [ctx EXCEPT !.savedBase =
                                                            c.m.baseFrameCount]),
                                  !.baseFrameCount = c.m.frameCount - 1,
                                  !.ip = c.m.frames[c.m.frameCount - 1].ip,
                                  !.pc = "dispatch"]
                 ELSE mapFnAfter([m1 EXCEPT !.stackTop = @ - 2], ctx, NIL_VAL)
        ELSE IF m.stackTop < 1 THEN undefined(m)
        ELSE callValueTail(pop(m), ctx.argCount, OBJ_VAL(ctx.result))

\* mapFnNative after vmCallFunction returned res for element ctx.i.
mapFnAfter(m, ctx, res) ==
    IF m.stackTop < 0 THEN undefined(m)
    ELSE IF m.hasError
    THEN IF m.stackTop < 1 THEN undefined(m)
         ELSE callValueTail(pop(m), ctx.argCount, NIL_VAL)
    ELSE mapFnLoop(appendItem(m, ctx.result, res), [ctx EXCEPT !.i = @ + 1])

mapFnNative(m, argCount, status) ==
    IF argCount # 2 \/ ~IS_LIST(m, args(m, argCount, 0))
    THEN callValueTail(m, argCount, NIL_VAL)
    ELSE LET id == Len(m.heap) + 1
         IN  mapFnLoop(rawPush(allocateObject(m, newList), OBJ_VAL(id)),
                       [argCount |-> argCount, args |-> m.stackTop - argCount,
                        list |-> args(m, argCount, 0).id,
                        fn |-> args(m, argCount, 1), result |-> id, i |-> 0,
                        status |-> status, savedBase |-> 0])

\* run() returns res: to interpret(), or to the vmCallFunction that
\* entered it, which hands the callback's result to its native.
RECURSIVE RunExit(_, _)

RECURSIVE deleteGlobals(_, _)
deleteGlobals(m, names) ==
    IF names = {} THEN m
    ELSE LET name == CHOOSE k \in names : TRUE
         IN  deleteGlobals(deleteGlobal(m, name), names \ {name})

\* IMPORT after run() returned res for the module: the globals that the
\* module added move to a new map, which is cached under the path and bound
\* to the module's name.  The value the module returned stays on the stack.
importAfter(m, ctx, res) ==
    LET id == Len(m.heap) + 1
        added == DOMAIN m.globals \ ctx.existingGlobals
        move(m1) ==
            [deleteGlobals(m1, added) EXCEPT
                !.heap[id].table = [k \in added |-> m.globals[k]]]
        cache(m2) ==
            [pop(m2) EXCEPT !.modules = tableSet(@, ctx.path, OBJ_VAL(id))]
        bind(m3) == setGlobal(m3, ctx.modName, OBJ_VAL(id))
        resume(m4) == [LOAD_FRAME(m4) EXCEPT !.pc = "dispatch"]
    IN  IF res # "INTERPRET_OK" THEN RunExit(m, "INTERPRET_RUNTIME_ERROR")
        ELSE resume(bind(cache(move(push(allocateObject(m, newMap), OBJ_VAL(id))))))

RunExit(m, res) ==
    IF m.cstack = <<>> THEN [m EXCEPT !.pc = "idle", !.result = res]
    ELSE LET ctx == m.cstack[Len(m.cstack)]
             m1 == [m EXCEPT !.cstack = SubSeq(@, 1, Len(@) - 1),
                             !.baseFrameCount = ctx.savedBase]
         IN  IF "path" \in DOMAIN ctx THEN importAfter(m1, ctx, res)
             ELSE IF res # "INTERPRET_OK" THEN mapFnAfter(m1, ctx, NIL_VAL)
             ELSE IF m1.stackTop < 1 THEN undefined(m1)
             ELSE mapFnAfter(pop(m1), ctx, peek(m1, 0))

(***************************************************************************)
(* Upvalues (vm.c).  The open list is linked through `next` from           *)
(* vm->openUpvalues.                                                       *)
(***************************************************************************)
\* The walk of captureUpvalue: prev and the first upvalue at or below local.
RECURSIVE captureWalk(_, _, _, _)
captureWalk(m, local, prevUpvalue, upvalue) ==
    IF upvalue # 0 /\ m.heap[upvalue].location > local
    THEN captureWalk(m, local, upvalue, m.heap[upvalue].next)
    ELSE [prevUpvalue |-> prevUpvalue, upvalue |-> upvalue]

\* A capture that never looks for an upvalue already open on the slot and
\* puts the new one at the head of the list.
captureAtHead(m, local) ==
    LET created == Len(m.heap) + 1
        m1 == allocate(m, [newUpvalue(local) EXCEPT !.next = m.openUpvalues])
    IN  [m |-> [m1 EXCEPT !.openUpvalues = created], upvalue |-> created]

captureUpvalue(m, local) ==
    LET w == captureWalk(m, local, 0, m.openUpvalues)
        created == Len(m.heap) + 1
        m1 == allocate(m, [newUpvalue(local) EXCEPT !.next = w.upvalue])
    IN  IF w.upvalue # 0 /\ m.heap[w.upvalue].location = local
        THEN [m |-> m, upvalue |-> w.upvalue]
        ELSE IF w.prevUpvalue = 0
        THEN [m |-> [m1 EXCEPT !.openUpvalues = created], upvalue |-> created]
        ELSE [m |-> [m1 EXCEPT !.heap[w.prevUpvalue].next = created],
              upvalue |-> created]

\* A closeUpvalues that moves the pointer to `closed` without copying the
\* value of the slot there.
RECURSIVE closeWithoutCopy(_, _)
closeWithoutCopy(m, last) ==
    LET upvalue == m.openUpvalues
    IN  IF upvalue # 0 /\ m.heap[upvalue].location >= last
        THEN closeWithoutCopy(
                [m EXCEPT !.heap[upvalue].location = SelfClosed,
                          !.openUpvalues = m.heap[upvalue].next],
                last)
        ELSE m

RECURSIVE closeUpvalues(_, _)
closeUpvalues(m, last) ==
    LET upvalue == m.openUpvalues
    IN  IF upvalue # 0 /\ m.heap[upvalue].location >= last
        THEN closeUpvalues(
                [m EXCEPT !.heap[upvalue].closed = m.stack[m.heap[upvalue].location],
                          !.heap[upvalue].location = SelfClosed,
                          !.openUpvalues = m.heap[upvalue].next],
                last)
        ELSE m

\* `*upvalue->location`
upvalueGet(m, upvalue) ==
    IF m.heap[upvalue].location = SelfClosed THEN m.heap[upvalue].closed
    ELSE m.stack[m.heap[upvalue].location]

\* `*upvalue->location = value`
upvalueSet(m, upvalue, value) ==
    IF m.heap[upvalue].location = SelfClosed
    THEN [m EXCEPT !.heap[upvalue].closed = value]
    ELSE [m EXCEPT !.stack[m.heap[upvalue].location] = value]

(***************************************************************************)
(* The instructions of run() (vm.c).  Each operator takes the VM with ip   *)
(* at the opcode and gives the VM after the instruction.                   *)
(***************************************************************************)
Code(m) == m.heap[m.ip.chunk].function.code

\* The byte k bytes after ip.
READ_BYTE(m, k) == Code(m)[m.ip.off + k + 1]

READ_SHORT(m, k) == READ_BYTE(m, k) * 256 + READ_BYTE(m, k + 1)

constants(m) == m.heap[frame(m).closure].function.constants

READ_CONSTANT(m, k) == constants(m)[READ_BYTE(m, k) + 1]

advance(m, n) == [m EXCEPT !.ip.off = @ + n]

\* The operand k bytes after ip indexes a constant of the frame's function,
\* and READ_STRING() finds a string there.
hasConstant(m, k) == READ_BYTE(m, k) < Len(constants(m))

hasString(m, k) == hasConstant(m, k) /\ IS_STRING(READ_CONSTANT(m, k))

\* The operand k bytes after ip indexes an upvalue of the frame's closure.
hasUpvalue(m, k) ==
    /\ READ_BYTE(m, k) < Len(m.heap[frame(m).closure].upvalues)
    /\ m.heap[frame(m).closure].upvalues[READ_BYTE(m, k) + 1] # 0

\* STORE_FRAME(); runtimeError(...); return INTERPRET_RUNTIME_ERROR;
fault(m, message) ==
    RunExit(runtimeError(STORE_FRAME(m), message), "INTERPRET_RUNTIME_ERROR")

opConstant(m) ==
    IF ~hasConstant(m, 1) THEN undefined(m)
    ELSE rawPush(advance(m, 2), READ_CONSTANT(m, 1))

opNil(m) == rawPush(advance(m, 1), NIL_VAL)

opTrue(m) == rawPush(advance(m, 1), BOOL_VAL(TRUE))

opAdd(m) ==
    LET b == peek(m, 0)
        a == peek(m, 1)
        m1 == advance(m, 1)
    IN  IF m.stackTop < 2 THEN undefined(m)
        ELSE IF IS_NUMBER(a) /\ IS_NUMBER(b)
        THEN [m1 EXCEPT !.stackTop = @ - 1,
                        !.stack[m.stackTop - 2] = NUMBER_VAL(a.n + b.n)]
        ELSE IF IS_STRING(a) /\ IS_STRING(b)
        THEN [m1 EXCEPT !.stackTop = @ - 1,
                        !.stack[m.stackTop - 2] = STRING_VAL(a.s \o b.s)]
        ELSE fault(m1, "Operands must be two numbers or two strings.")

\* The modelled scripts divide by 0 or by a divisor of the dividend, where
\* the quotient of the doubles is the integer quotient.
opDivide(m) ==
    LET b == peek(m, 0)
        a == peek(m, 1)
        m1 == advance(m, 1)
    IN  IF m.stackTop < 2 THEN undefined(m)
        ELSE IF ~IS_NUMBER(b) \/ ~IS_NUMBER(a)
        THEN fault(m1, "Operands must be numbers.")
        ELSE IF b.n = 0
        THEN fault(m1, "Division by zero.")
        ELSE [m1 EXCEPT !.stackTop = @ - 1,
                        !.stack[m.stackTop - 2] = NUMBER_VAL(a.n \div b.n)]

opEqual(m) ==
    IF m.stackTop < 2 THEN undefined(m)
    ELSE [advance(m, 1) EXCEPT
            !.stackTop = @ - 1,
            !.stack[m.stackTop - 2] = BOOL_VAL(valuesEqual(peek(m, 1), peek(m, 0)))]

\* BINARY_OP(BOOL_VAL, <)
opLess(m) ==
    LET b == peek(m, 0)
        a == peek(m, 1)
        m1 == advance(m, 1)
    IN  IF m.stackTop < 2 THEN undefined(m)
        ELSE IF ~IS_NUMBER(b) \/ ~IS_NUMBER(a)
        THEN fault(m1, "Operands must be numbers.")
        ELSE [m1 EXCEPT !.stackTop = @ - 1,
                        !.stack[m.stackTop - 2] = BOOL_VAL(a.n < b.n)]

opGetLocal(m) ==
    rawPush(advance(m, 2), m.stack[frame(m).slots + READ_BYTE(m, 1)])

opSetLocal(m) ==
    IF m.stackTop < 1 THEN undefined(m)
    ELSE [advance(m, 2) EXCEPT !.stack[frame(m).slots + READ_BYTE(m, 1)] = peek(m, 0)]

\* ic->key == name && ic->tableCapacity == vm->globals.capacity
cacheHit(m, name) ==
    /\ name \in DOMAIN m.globalIC
    /\ m.globalIC[name] = m.globalsTable.capacity

\* The slot of name is filled with the entry that tableGetEntry found.
cacheFill(m, name) ==
    [m EXCEPT !.globalIC = [k \in DOMAIN @ \cup {name} |->
                               IF k = name THEN m.globalsTable.capacity ELSE @[k]]]

\* ic->entry->value: the entry of a global, or the tombstone left of it.
entryValue(m, name) ==
    IF name \in DOMAIN m.globals THEN m.globals[name]
    ELSE m.globalsTable.dead[name]

opGetGlobal(m) ==
    LET name == READ_CONSTANT(m, 1).s
        m1 == advance(m, 2)
    IN  IF ~hasString(m, 1) THEN undefined(m)
        ELSE IF cacheHit(m, name) THEN rawPush(m1, entryValue(m, name))
        ELSE IF name \notin DOMAIN m.globals
        THEN fault(m1, "Undefined variable '" \o name \o "'.")
        ELSE rawPush(cacheFill(m1, name), m.globals[name])

opSetGlobal(m) ==
    LET name == READ_CONSTANT(m, 1).s
        value == peek(m, 0)
        m1 == advance(m, 2)
    IN  IF m.stackTop < 1 \/ ~hasString(m, 1) THEN undefined(m)
        ELSE IF cacheHit(m, name)
        THEN IF name \in DOMAIN m.globals
             THEN [m1 EXCEPT !.globals[name] = value]
             ELSE [m1 EXCEPT !.globalsTable.dead[name] = value]
        ELSE cacheFill(setGlobal(m1, name, value), name)

opDefineGlobal(m) ==
    IF m.stackTop < 1 \/ ~hasString(m, 1) THEN undefined(m)
    ELSE [setGlobal(advance(m, 2), READ_CONSTANT(m, 1).s, peek(m, 0))
             EXCEPT !.stackTop = @ - 1]

opGetUpvalue(m) ==
    IF ~hasUpvalue(m, 1) THEN undefined(m)
    ELSE
    rawPush(advance(m, 2),
            upvalueGet(m, m.heap[frame(m).closure].upvalues[READ_BYTE(m, 1) + 1]))

opSetUpvalue(m) ==
    IF m.stackTop < 1 \/ ~hasUpvalue(m, 1) THEN undefined(m)
    ELSE upvalueSet(advance(m, 2),
                    m.heap[frame(m).closure].upvalues[READ_BYTE(m, 1) + 1],
                    peek(m, 0))

\* Where the jump leaves the chunk's code, the next instruction is read
\* outside the array.
opJump(m) ==
    IF m.ip.off + 3 + READ_SHORT(m, 1) >= Len(Code(m)) THEN undefined(m)
    ELSE advance(m, 3 + READ_SHORT(m, 1))

opLoop(m) == advance(m, 3 - READ_SHORT(m, 1))

opJumpIfFalse(m) ==
    IF m.stackTop < 1 THEN undefined(m)
    ELSE IF isFalsey(peek(m, 0)) THEN advance(m, 3 + READ_SHORT(m, 1))
    ELSE advance(m, 3)

opPop(m) == IF m.stackTop < 1 THEN undefined(m) ELSE pop(advance(m, 1))

\* CALL up to the return of callValue; the check for a raised error that
\* follows it is checkError.
opCall(m, status) ==
    LET argCount == READ_BYTE(m, 1)
        m1 == STORE_FRAME(advance(m, 2))
        callee == peek(m1, argCount)
    IN  IF m.stackTop < argCount + 1 THEN undefined(m)
        ELSE IF IS_CLOSURE(m1, callee)
        THEN LET c == callClosure(m1, callee.id, argCount)
             IN  IF c.ok THEN [c.m EXCEPT !.pc = "check"]
                 ELSE RunExit(c.m, "INTERPRET_RUNTIME_ERROR")
        ELSE IF IS_NATIVE(callee)
        THEN IF NativeArity[callee.name] >= 0 /\ argCount # NativeArity[callee.name]
             THEN RunExit(runtimeError(m1, "Expected arguments."),
                          "INTERPRET_RUNTIME_ERROR")
             ELSE IF callee.name = "map_fn" THEN mapFnNative(m1, argCount, status)
             ELSE LET r == callNative(m1, callee.name, argCount, status)
                  IN  callValueTail(r.m, argCount, r.result)
        ELSE RunExit(runtimeError(m1, "Can only call functions."),
                     "INTERPRET_RUNTIME_ERROR")

\* The handler pushed first, whatever was pushed after it.
bottomHandler(m) == m.handlers[1]

\* `&vm->handlers[vm->handlerCount - 1]`
topHandler(m) == m.handlers[Len(m.handlers)]

\* The rest of CALL: LOAD_FRAME, then the raised error, if any, goes to the
\* handler on top of vm->handlers or ends run().
checkError(m) ==
    LET m1 == LOAD_FRAME(m)
        handler == topHandler(m)
        m2 == LOAD_FRAME([m1 EXCEPT !.frameCount = handler.frameCount])
        m3 == push([m2 EXCEPT !.stackTop = handler.stackTop], m.currentError)
        errMap == m.heap[m.currentError.id]
        message == IF IS_MAP(m, m.currentError)
                      /\ tableHas(errMap.table, "message")
                      /\ IS_STRING(errMap.table["message"])
                   THEN errMap.table["message"].s
                   ELSE "Runtime error."
    IN  IF m1.pc = "undefined" THEN m1
        ELSE IF ~m.hasError THEN [m1 EXCEPT !.pc = "dispatch"]
        ELSE IF Len(m.handlers) > 0
        THEN IF m2.pc = "undefined" THEN m2
             ELSE [m3 EXCEPT !.ip = handler.handlerIP,
                             !.hasError = FALSE,
                             !.currentError = NIL_VAL,
                             !.fired = Append(@, handler.seq),
                             !.pc = "dispatch"]
        ELSE RunExit([runtimeError(STORE_FRAME(m1), message)
                         EXCEPT !.hasError = FALSE, !.currentError = NIL_VAL],
                     "INTERPRET_RUNTIME_ERROR")

\* The loop of CLOSURE over the upvalue descriptors from i (0-based) on.
RECURSIVE closureUpvalues(_, _, _, _)
closureUpvalues(m, closure, start, i) ==
    IF i >= Len(m.heap[closure].upvalues) THEN m
    ELSE LET isLocal == READ_BYTE(start, 2 + 2 * i)
             index == READ_BYTE(start, 3 + 2 * i)
             c == captureUpvalue(m, frame(start).slots + index)
         IN  IF isLocal # 0
             THEN closureUpvalues([c.m EXCEPT !.heap[closure].upvalues[i + 1] = c.upvalue],
                                  closure, start, i + 1)
             ELSE closureUpvalues(
                     [m EXCEPT !.heap[closure].upvalues[i + 1] =
                                  m.heap[frame(start).closure].upvalues[index + 1]],
                     closure, start, i + 1)

opClosure(m) ==
    LET function == READ_CONSTANT(m, 1)
        closure == Len(m.heap) + 1
        m1 == push(allocateObject(m, newClosure(function.f)), OBJ_VAL(closure))
    IN  IF ~hasConstant(m, 1) THEN undefined(m)
        ELSE IF function.t # "fn" THEN undefined(m)
        ELSE advance(closureUpvalues(m1, closure, m, 0),
                     2 + 2 * function.f.upvalueCount)

opCloseUpvalue(m) ==
    IF m.stackTop < 1 THEN undefined(m)
    ELSE pop(closeUpvalues(advance(m, 1), m.stackTop - 1))

\* A RETURN that leaves the callee where it is and pushes the result above
\* it.
returnAboveCallee(m) ==
    LET value == peek(m, 0)
        slots == frame(m).slots
        m1 == closeUpvalues(pop(m), slots)
        m2 == [m1 EXCEPT !.frameCount = @ - 1]
        m3 == push([m2 EXCEPT !.stackTop = slots + 1], value)
    IN  IF m.stackTop < 1 THEN undefined(m)
        ELSE IF m2.frameCount = 0
        THEN IF m2.stackTop < 1 THEN undefined(m2)
             ELSE RunExit(pop(m2), "INTERPRET_OK")
        ELSE IF m2.baseFrameCount > 0 /\ m2.frameCount = m2.baseFrameCount
        THEN RunExit(m3, "INTERPRET_OK")
        ELSE LOAD_FRAME(m3)

opReturn(m) ==
    LET value == peek(m, 0)
        slots == frame(m).slots
        m1 == closeUpvalues(pop(m), slots)
        m2 == [m1 EXCEPT !.frameCount = @ - 1]
        m3 == push([m2 EXCEPT !.stackTop = slots], value)
    IN  IF m.stackTop < 1 THEN undefined(m)
        ELSE IF m2.frameCount = 0
        THEN IF m2.stackTop < 1 THEN undefined(m2)
             ELSE RunExit(pop(m2), "INTERPRET_OK")
        ELSE IF m2.baseFrameCount > 0 /\ m2.frameCount = m2.baseFrameCount
        THEN RunExit(m3, "INTERPRET_OK")
        ELSE LOAD_FRAME(m3)

opBuildList(m) ==
    LET count == READ_BYTE(m, 1)
        list == Len(m.heap) + 1
        items == [i \in 1..count |-> m.stack[m.stackTop - count + i - 1]]
        m1 == push(allocateObject(advance(m, 2), [kind |-> "list", items |-> items]),
                   OBJ_VAL(list))
    IN  IF m.stackTop < count THEN undefined(m)
        ELSE push([m1 EXCEPT !.stackTop = @ - (count + 1)], OBJ_VAL(list))

opIndexGet(m) ==
    LET index == peek(m, 0)
        obj == peek(m, 1)
        m1 == advance(m, 1)
        m2 == pop(pop(m1))
        count == IF IS_STRING(obj) THEN Len(obj.s) ELSE Len(m.heap[obj.id].items)
        i == IF index.n < 0 THEN index.n + count ELSE index.n
    IN  IF m.stackTop < 2 THEN undefined(m)
        ELSE IF IS_LIST(m, obj)
        THEN IF ~IS_NUMBER(index)
             THEN fault(m2, "List index must be a number.")
             ELSE IF i < 0 \/ i >= count
             THEN fault(m2, "List index out of range.")
             ELSE push(m2, m.heap[obj.id].items[i + 1])
        ELSE IF IS_MAP(m, obj)
        THEN IF ~IS_STRING(index)
             THEN fault(m2, "Map key must be a string.")
             ELSE push(m2, IF tableHas(m.heap[obj.id].table, index.s)
                           THEN m.heap[obj.id].table[index.s] ELSE NIL_VAL)
        ELSE IF IS_STRING(obj)
        THEN IF ~IS_NUMBER(index)
             THEN fault(m2, "String index must be a number.")
             ELSE IF i < 0 \/ i >= count
             THEN fault(m2, "String index out of range.")
             ELSE push(m2, STRING_VAL(SubSeq(obj.s, i + 1, i + 1)))
        ELSE fault(m2, "Only lists, maps, and strings support indexing.")

opGetProperty(m) ==
    LET obj == peek(m, 0)
        name == READ_CONSTANT(m, 1).s
        m1 == advance(m, 2)
    IN  IF m.stackTop < 1 \/ ~hasString(m, 1) THEN undefined(m)
        ELSE IF IS_MAP(m, obj)
        THEN push(pop(m1), IF tableHas(m.heap[obj.id].table, name)
                           THEN m.heap[obj.id].table[name] ELSE NIL_VAL)
        ELSE IF IS_LIST(m, obj)
        THEN IF name = "length"
             THEN push(pop(m1), NUMBER_VAL(Len(m.heap[obj.id].items)))
             ELSE fault(m1, "List has no property '" \o name \o "'.")
        ELSE IF IS_STRING(obj)
        THEN IF name = "length" THEN push(pop(m1), NUMBER_VAL(Len(obj.s)))
             ELSE fault(m1, "String has no property '" \o name \o "'.")
        ELSE fault(m1, "Only maps, lists, and strings have properties.")

opAllow(m) ==
    IF ~hasString(m, 2) THEN undefined(m)
    ELSE
    [advance(m, 3) EXCEPT
        !.permissions = addPermission(@, READ_BYTE(m, 1), READ_CONSTANT(m, 2).s)]

\* The file that IMPORT opens for path: the path joined to the directory of
\* the script (scriptPath is <<>> for NULL), with ".glipt" added unless it
\* ends in it.  (The 1024 bytes of fullPath are not a limit for the
\* modelled paths.)
resolvePath(scriptPath, path) ==
    LET lastSlash == lastIndexOf(scriptPath, "/")
        dirLen == IF lastSlash = 0 THEN 0 ELSE lastSlash - 1
        fullPath == IF dirLen > 0
                    THEN SubSeq(scriptPath, 1, dirLen) \o <<"/">> \o path
                    ELSE path
    IN  IF Len(fullPath) < 6 \/ ~endsWith(fullPath, Extension)
        THEN fullPath \o Extension
        ELSE fullPath

\* files is the file system: the parsed source of each file that fopen
\* finds.  A module that is not in the cache is compiled and run() is
\* entered for it, with IMPORT suspended on cstack.
opImport(m, scriptPath, files) ==
    LET path == READ_CONSTANT(m, 1).s
        modName == READ_CONSTANT(m, 2).s
        fullPath == Cat(resolvePath(scriptPath, Chars[path]))
        closure == Len(m.heap) + 1
        enter(c) ==
            IF ~c.ok THEN fault(c.m, "Error calling module '" \o path \o "'.")
            ELSE [c.m EXCEPT
                    !.cstack = Append(@, [path |-> path, modName |-> modName,
                                          existingGlobals |-> DOMAIN m.globals,
                                          savedBase |-> c.m.baseFrameCount]),
                    !.baseFrameCount = c.m.frameCount - 1,
                    !.ip = c.m.frames[c.m.frameCount - 1].ip,
                    !.pc = "dispatch"]
        execute(m0, modFunc) ==
            LET m1 == [m0 EXCEPT !.err = @ \o modFunc.stderr]
            IN
            IF ~modFunc.ok
            THEN fault(m1, "Compilation error in module '" \o path \o "'.")
            ELSE enter(callClosure(
                         push(allocateObject(pop(push(m1, FUNCTION_VAL(modFunc.function))),
                                       newClosure(modFunc.function)),
                              OBJ_VAL(closure)),
                         closure, 0))
        open(m1) ==
            IF fullPath \notin DOMAIN files
            THEN fault(m1, "Could not open module '" \o path \o "' (resolved to '"
                           \o fullPath \o "').")
            ELSE execute(m1, compile(files[fullPath]))
    IN  IF ~hasString(m, 1) \/ ~hasString(m, 2) THEN undefined(m)
        ELSE IF tableHas(m.modules, path)
        THEN setGlobal(advance(m, 3), modName, m.modules[path])
        ELSE open(STORE_FRAME(advance(m, 3)))

\* seq numbers the handlers in the order they are pushed; the code keeps no
\* such number.
opPushHandler(m) ==
    LET m1 == advance(m, 3)
    IN  IF Len(m.handlers) >= HANDLER_MAX
        THEN fault(m1, "Too many nested error handlers.")
        ELSE [m1 EXCEPT
                !.handlers = Append(@, [handlerIP |-> [m1.ip EXCEPT !.off =
                                                          @ + READ_SHORT(m, 1)],
                                        frameCount |-> m.frameCount,
                                        stackTop |-> m.stackTop,
                                        seq |-> m.pushes + 1]),
                !.pushes = @ + 1]

opPopHandler(m) ==
    IF Len(m.handlers) > 0
    THEN [advance(m, 1) EXCEPT !.handlers = SubSeq(@, 1, Len(@) - 1)]
    ELSE advance(m, 1)

\* interpret(): the compiled script is wrapped in a closure, called with no
\* arguments and run.
interpret(m, program) ==
    LET start(c) == [LOAD_FRAME(c.m) EXCEPT !.pc = "dispatch"]
        call(m1, closure) ==
            start(callClosure(push(allocateObject(m1, newClosure(closure.function)),
                                   OBJ_VAL(closure.obj)),
                              closure.obj, 0))
        run(function) ==
            IF ~function.ok
            THEN [m EXCEPT !.err = @ \o function.stderr,
                           !.result = "INTERPRET_COMPILE_ERROR"]
            ELSE call(pop(push([m EXCEPT !.err = @ \o function.stderr],
                               FUNCTION_VAL(function.function))),
                      [function |-> function.function, obj |-> Len(m.heap) + 1])
    IN  run(compile(program))

(***************************************************************************)
(* The scripts the VM is run on, as the parser hands them to compile().    *)
(***************************************************************************)
Var(name) == astNewVariable(name)
Str(s) == astNewLiteral(STRING_VAL(s))
Num(n) == astNewLiteral(NUMBER_VAL(n))
Call(callee, arguments) == astNewCall(callee, arguments)
CallStmt(callee, arguments) == astNewExprStmt(astNewCall(callee, arguments))
PrintStmt(arguments) == CallStmt(Var("print"), arguments)
ErrorType == astNewDot(Var("error"), "type")

\* fn outer() { x = 1; fn inner() { x += 1; return x }
\*              print(inner()) [live times]; return inner }
\* c = outer(); print(c()) [NumCalls times]
CounterProgram(live) ==
    astNewProgram(
      << astNewFnDecl("outer", <<>>, astNewBlock(
           << astNewVarDecl("x", Num(1)),
              astNewFnDecl("inner", <<>>, astNewBlock(
                << astNewCompoundAssign("x", "TOKEN_PLUS_EQUAL", Num(1)),
                   astNewReturn(Var("x")) >>)) >>
           \o [i \in 1..live |-> PrintStmt(<<Call(Var("inner"), <<>>)>>)]
           \o << astNewReturn(Var("inner")) >>)),
         astNewVarDecl("c", Call(Var("outer"), <<>>)) >>
      \o [i \in 1..NumCalls |-> PrintStmt(<<Call(Var("c"), <<>>)>>)])

\* fn g() { on failure { print("g", error.type); return 1 }; read("/a"); return 2 }
\* fn f() { on failure { print("f", error.type); return 3 }; g(); exec("a"); return 4 }
\* print(f())
NestedHandlers ==
    astNewProgram(
      << astNewFnDecl("g", <<>>, astNewBlock(
           << astNewOnFailure(astNewBlock(
                << PrintStmt(<<Str("g"), ErrorType>>), astNewReturn(Num(1)) >>)),
              CallStmt(Var("read"), <<Str("/a")>>),
              astNewReturn(Num(2)) >>)),
         astNewFnDecl("f", <<>>, astNewBlock(
           << astNewOnFailure(astNewBlock(
                << PrintStmt(<<Str("f"), ErrorType>>), astNewReturn(Num(3)) >>)),
              CallStmt(Var("g"), <<>>),
              CallStmt(Var("exec"), <<Str("a")>>),
              astNewReturn(Num(4)) >>)),
         PrintStmt(<<Call(Var("f"), <<>>)>>) >>)

\* fn f() { on failure { return error.type }; a = 1; b = 2; exec("a"); return "ok" }
\* print(f())
HandlerLocals ==
    astNewProgram(
      << astNewFnDecl("f", <<>>, astNewBlock(
           << astNewOnFailure(astNewBlock(<< astNewReturn(ErrorType) >>)),
              astNewVarDecl("a", Num(1)),
              astNewVarDecl("b", Num(2)),
              CallStmt(Var("exec"), <<Str("a")>>),
              astNewReturn(Str("ok")) >>)),
         PrintStmt(<<Call(Var("f"), <<>>)>>) >>)

\* on failure { print("h"); exec("a"); print("end") }
\* exec("a")
HandlerRaises ==
    astNewProgram(
      << astNewOnFailure(astNewBlock(
           << PrintStmt(<<Str("h")>>),
              CallStmt(Var("exec"), <<Str("a")>>),
              PrintStmt(<<Str("end")>>) >>)),
         CallStmt(Var("exec"), <<Str("a")>>) >>)

\* fn cb(x) { return exec("a") }
\* map_fn([1, 2], cb); print("done")
MapFnRaises ==
    astNewProgram(
      << astNewFnDecl("cb", <<"x">>, astNewBlock(
           << astNewReturn(Call(Var("exec"), <<Str("a")>>)) >>)),
         CallStmt(Var("map_fn"), << astNewList(<<Num(1), Num(2)>>), Var("cb") >>),
         PrintStmt(<<Str("done")>>) >>)

\* on failure { print("h") }
\* print(4 / 2); print(1 / 0); print("done")
DivideByZero ==
    astNewProgram(
      << astNewOnFailure(astNewBlock(<< PrintStmt(<<Str("h")>>) >>)),
         PrintStmt(<<astNewBinary("TOKEN_SLASH", Num(4), Num(2))>>),
         PrintStmt(<<astNewBinary("TOKEN_SLASH", Num(1), Num(0))>>),
         PrintStmt(<<Str("done")>>) >>)

\* on failure { print("h") }
\* print(1 + "a"); print("done")
AddWrongType ==
    astNewProgram(
      << astNewOnFailure(astNewBlock(<< PrintStmt(<<Str("h")>>) >>)),
         PrintStmt(<<astNewBinary("TOKEN_PLUS", Num(1), Str("a"))>>),
         PrintStmt(<<Str("done")>>) >>)

\* on failure { print("h") }
\* fn cb(x) { return x / 0 }
\* map_fn([1], cb); print("done")
MapFnFaults ==
    astNewProgram(
      << astNewOnFailure(astNewBlock(<< PrintStmt(<<Str("h")>>) >>)),
         astNewFnDecl("cb", <<"x">>, astNewBlock(
           << astNewReturn(astNewBinary("TOKEN_SLASH", Var("x"), Num(0))) >>)),
         CallStmt(Var("map_fn"), << astNewList(<<Num(1)>>), Var("cb") >>),
         PrintStmt(<<Str("done")>>) >>)

\* fn inner(y) { return y }
\* fn cb(x) { map_fn([x, 5], inner); return x }
\* print(map_fn([1, 2], cb))
MapFnNested ==
    astNewProgram(
      << astNewFnDecl("inner", <<"y">>, astNewBlock(
           << astNewReturn(Var("y")) >>)),
         astNewFnDecl("cb", <<"x">>, astNewBlock(
           << CallStmt(Var("map_fn"),
                       << astNewList(<<Var("x"), Num(5)>>), Var("inner") >>),
              astNewReturn(Var("x")) >>)),
         PrintStmt(<< Call(Var("map_fn"),
                           << astNewList(<<Num(1), Num(2)>>), Var("cb") >>) >>) >>)

\* on failure { print("h") }
\* fn cb(x) { return exec("a") }
\* map_fn([1, 2], cb); print("done")
MapFnHandled ==
    astNewProgram(
      << astNewOnFailure(astNewBlock(<< PrintStmt(<<Str("h")>>) >>)),
         astNewFnDecl("cb", <<"x">>, astNewBlock(
           << astNewReturn(Call(Var("exec"), <<Str("a")>>)) >>)),
         CallStmt(Var("map_fn"), << astNewList(<<Num(1), Num(2)>>), Var("cb") >>),
         PrintStmt(<<Str("done")>>) >>)

LessThan(left, right) == astNewBinary("TOKEN_LESS", left, right)
Equals(left, right) == astNewBinary("TOKEN_EQUAL_EQUAL", left, right)
Plus(left, right) == astNewBinary("TOKEN_PLUS", left, right)

\* for x in [1, 2, 3] { if x == 2 { continue }; print(x) }
\* print("done")
ForContinue ==
    astNewProgram(
      << astNewFor("x", astNewList(<<Num(1), Num(2), Num(3)>>), astNewBlock(
           << astNewIf(Equals(Var("x"), Num(2)),
                       astNewBlock(<< astNewContinue >>)),
              PrintStmt(<<Var("x")>>) >>)),
         PrintStmt(<<Str("done")>>) >>)

\* i = 0
\* while i < 2 { if i == 1 { break }; for y in [7] { break }; i = i + 1 }
\* print(i)
NestedBreak ==
    astNewProgram(
      << astNewVarDecl("i", Num(0)),
         astNewWhile(LessThan(Var("i"), Num(2)), astNewBlock(
           << astNewIf(Equals(Var("i"), Num(1)), astNewBlock(<< astNewBreak >>)),
              astNewFor("y", astNewList(<<Num(7)>>),
                        astNewBlock(<< astNewBreak >>)),
              astNewVarDecl("i", Plus(Var("i"), Num(1))) >>)),
         PrintStmt(<<Var("i")>>) >>)

\* fn f() { i = 0
\*          while i < 3 { t = i + 1; if t == 2 { break }; i = t }
\*          r = 5; return r }
\* print(f())
BreakWithLocal ==
    astNewProgram(
      << astNewFnDecl("f", <<>>, astNewBlock(
           << astNewVarDecl("i", Num(0)),
              astNewWhile(LessThan(Var("i"), Num(3)), astNewBlock(
                << astNewVarDecl("t", Plus(Var("i"), Num(1))),
                   astNewIf(Equals(Var("t"), Num(2)),
                            astNewBlock(<< astNewBreak >>)),
                   astNewVarDecl("i", Var("t")) >>)),
              astNewVarDecl("r", Num(5)),
              astNewReturn(Var("r")) >>)),
         PrintStmt(<< Call(Var("f"), <<>>) >>) >>)

\* fn g() { i = 0
\*          while i < 2 { i = i + 1; t = i; if t == 1 { continue }; print(t) }
\*          return i }
\* print(g())
ContinueWithLocal ==
    astNewProgram(
      << astNewFnDecl("g", <<>>, astNewBlock(
           << astNewVarDecl("i", Num(0)),
              astNewWhile(LessThan(Var("i"), Num(2)), astNewBlock(
                << astNewVarDecl("i", Plus(Var("i"), Num(1))),
                   astNewVarDecl("t", Var("i")),
                   astNewIf(Equals(Var("t"), Num(1)),
                            astNewBlock(<< astNewContinue >>)),
                   PrintStmt(<<Var("t")>>) >>)),
              astNewReturn(Var("i")) >>)),
         PrintStmt(<< Call(Var("g"), <<>>) >>) >>)

LoopPrograms == {ForContinue, NestedBreak, BreakWithLocal, ContinueWithLocal}

\* fn second(a, b) { return b }
\* print(second(1, 2), second(3, 4))
CallWithArgs ==
    astNewProgram(
      << astNewFnDecl("second", <<"a", "b">>, astNewBlock(
           << astNewReturn(Var("b")) >>)),
         PrintStmt(<< Call(Var("second"), <<Num(1), Num(2)>>),
                      Call(Var("second"), <<Num(3), Num(4)>>) >>) >>)

\* fn f(k) { { on failure { print("h") }; a = exec("a") }; b = 5; return k }
\* print(f(7))
ProtectedLocal ==
    astNewProgram(
      << astNewFnDecl("f", <<"k">>, astNewBlock(
           << astNewBlock(
                << astNewOnFailure(astNewBlock(<< PrintStmt(<<Str("h")>>) >>)),
                   astNewVarDecl("a", Call(Var("exec"), <<Str("a")>>)) >>),
              astNewVarDecl("b", Num(5)),
              astNewReturn(Var("k")) >>)),
         PrintStmt(<<Call(Var("f"), <<Num(7)>>)>>) >>)

MatchArms ==
    << astNewMatchArm(Num(1), Str("one")),
       astNewMatchArm(Num(2), astNewBlock(<< PrintStmt(<<Str("b")>>) >>)),
       astNewMatchArm(Num(3), Str("three")) >>

\* r = match v { 1 -> "one", 2 -> { print("b") }, 3 -> "three" }
\* print(r)
MatchProgram(v) ==
    astNewProgram(
      << astNewVarDecl("r", astNewMatch(Num(v), MatchArms)),
         PrintStmt(<<Var("r")>>) >>)

\* r = match print(7) { 1 -> "one", _ -> "other", nil -> "none" }
\* print(r)
MatchOnce ==
    astNewProgram(
      << astNewVarDecl("r",
            astNewMatch(Call(Var("print"), <<Num(7)>>),
                        << astNewMatchArm(Num(1), Str("one")),
                           astNewMatchArm(NoNode, Str("other")),
                           astNewMatchArm(astNewLiteral(NIL_VAL), Str("none")) >>)),
         PrintStmt(<<Var("r")>>) >>)

\* print(match 2 { 1 -> "one", 2 -> "two", _ -> "other" })
MatchArgument ==
    astNewProgram(
      << PrintStmt(<< astNewMatch(Num(2),
                        << astNewMatchArm(Num(1), Str("one")),
                           astNewMatchArm(Num(2), Str("two")),
                           astNewMatchArm(NoNode, Str("other")) >>) >>) >>)

MatchPrograms ==
    {MatchProgram(v) : v \in 1..4} \cup {MatchOnce, MatchArgument}

\* print(1); return; print(2)
TopLevelReturn ==
    astNewProgram(
      << PrintStmt(<<Num(1)>>),
         astNewReturn([type |-> "NODE_NONE"]),
         PrintStmt(<<Num(2)>>) >>)

\* The file m.glipt:  x = 1; print(x)
ModuleM ==
    astNewProgram(
      << astNewVarDecl("x", Num(1)),
         PrintStmt(<<Var("x")>>) >>)

\* The file n.glipt:  y = 2
ModuleN == astNewProgram(<< astNewVarDecl("y", Num(2)) >>)

\* The files beside the script.
Files == [f \in {"m.glipt", "n.glipt"} |->
             IF f = "m.glipt" THEN ModuleM ELSE ModuleN]

\* import "m"; print(m.x); print(x)
ImportThenRead ==
    astNewProgram(
      << astNewImport("m", ""),
         PrintStmt(<<astNewDot(Var("m"), "x")>>),
         PrintStmt(<<Var("x")>>) >>)

\* import "m"; if true { x = 5 }; print(x)
ImportThenSet ==
    astNewProgram(
      << astNewImport("m", ""),
         astNewIf(astNewLiteral(BOOL_VAL(TRUE)),
                  astNewBlock(<< astNewVarDecl("x", Num(5)) >>)),
         PrintStmt(<<Var("x")>>) >>)

\* import "n"; print(n.y); print(y)
ImportUnread ==
    astNewProgram(
      << astNewImport("n", ""),
         PrintStmt(<<astNewDot(Var("n"), "y")>>),
         PrintStmt(<<Var("y")>>) >>)

\* import "m"; import "m"; import "m.glipt"
ImportTwice ==
    astNewProgram(
      << astNewImport("m", ""),
         astNewImport("m", ""),
         astNewImport("m.glipt", "") >>)

\* fn f() { import "n"; b = 5; return b }
\* print(f())
ImportInFunction ==
    astNewProgram(
      << astNewFnDecl("f", <<>>, astNewBlock(
           << astNewImport("n", ""),
              astNewVarDecl("b", Num(5)),
              astNewReturn(Var("b")) >>)),
         PrintStmt(<< Call(Var("f"), <<>>) >>) >>)

\* The natives that reach outside the process for a path, host, command or
\* variable, each with the kind of permission that covers its target.
GatedNatives ==
    {"exec", "read", "write", "env", "fs.exists", "fs.remove", "net.resolve",
     "proc.exec", "parallel_exec"}

GatedKind ==
    [exec |-> PERM_EXEC, read |-> PERM_READ, write |-> PERM_WRITE,
     env |-> PERM_ENV, parallel_exec |-> PERM_EXEC]
        @@ ("fs.exists" :> PERM_READ) @@ ("fs.remove" :> PERM_WRITE)
        @@ ("net.resolve" :> PERM_NET) @@ ("proc.exec" :> PERM_EXEC)

GatedCallee(native) ==
    CASE native = "fs.exists" -> astNewDot(Var("fs"), "exists")
      [] native = "fs.remove" -> astNewDot(Var("fs"), "remove")
      [] native = "net.resolve" -> astNewDot(Var("net"), "resolve")
      [] native = "proc.exec" -> astNewDot(Var("proc"), "exec")
      [] OTHER -> Var(native)

GatedArguments(native) ==
    CASE native = "write" -> <<Str("/a"), Str("data")>>
      [] native = "parallel_exec" -> << astNewList(<<Str("/a")>>) >>
      [] OTHER -> <<Str("/a")>>

\* on failure { print(error.type) }
\* <native>("/a"); print("after")
GatedCall(native) ==
    astNewProgram(
      << astNewOnFailure(astNewBlock(<< PrintStmt(<<ErrorType>>) >>)),
         CallStmt(GatedCallee(native), GatedArguments(native)),
         PrintStmt(<<Str("after")>>) >>)

\* fn f() { allow read "/*"; return read("/a") }
\* on failure { print(error.type); read("/aa") }
\* f(); write("/a", "data"); print("after")
AllowProgram ==
    astNewProgram(
      << astNewFnDecl("f", <<>>, astNewBlock(
           << astNewAllow(PERM_READ, "/*"),
              astNewReturn(Call(Var("read"), <<Str("/a")>>)) >>)),
         astNewOnFailure(astNewBlock(
           << PrintStmt(<<ErrorType>>), CallStmt(Var("read"), <<Str("/aa")>>) >>)),
         CallStmt(Var("f"), <<>>),
         CallStmt(Var("write"), <<Str("/a"), Str("data")>>),
         PrintStmt(<<Str("after")>>) >>)

\* allow exec "a"; allow env "/a"
\* read("/a"); print("after")
AllowOtherKind ==
    astNewProgram(
      << astNewAllow(PERM_EXEC, "a"),
         astNewAllow(PERM_ENV, "/a"),
         CallStmt(Var("read"), <<Str("/a")>>),
         PrintStmt(<<Str("after")>>) >>)

\* fn mk() { k = nil; if true { y = 1; fn h() { return y }; k = h }; return k }
\* print(mk()())
BlockCapture ==
    astNewProgram(
      << astNewFnDecl("mk", <<>>, astNewBlock(
           << astNewVarDecl("k", astNewLiteral(NIL_VAL)),
              astNewIf(astNewLiteral(BOOL_VAL(TRUE)), astNewBlock(
                << astNewVarDecl("y", Num(1)),
                   astNewFnDecl("h", <<>>, astNewBlock(<< astNewReturn(Var("y")) >>)),
                   astNewVarDecl("k", Var("h")) >>)),
              astNewReturn(Var("k")) >>)),
         PrintStmt(<<Call(Call(Var("mk"), <<>>), <<>>)>>) >>)

\* fn f() { x = 1; fn h() { x = 2; return x }; print(h()); return x }
\* print(f())
UpvalueRebind ==
    astNewProgram(
      << astNewFnDecl("f", <<>>, astNewBlock(
           << astNewVarDecl("x", Num(1)),
              astNewFnDecl("h", <<>>, astNewBlock(
                << astNewVarDecl("x", Num(2)),
                   astNewReturn(Var("x")) >>)),
              PrintStmt(<<Call(Var("h"), <<>>)>>),
              astNewReturn(Var("x")) >>)),
         PrintStmt(<<Call(Var("f"), <<>>)>>) >>)

\* fn f() { x = 1; y = 2; fn g() { return y }; fn h() { x += 1; return x }
\*          fn k() { return x + y }; print(h()); print(k()); return k }
\* print(f()())
SharedCapture ==
    astNewProgram(
      << astNewFnDecl("f", <<>>, astNewBlock(
           << astNewVarDecl("x", Num(1)),
              astNewVarDecl("y", Num(2)),
              astNewFnDecl("g", <<>>, astNewBlock(<< astNewReturn(Var("y")) >>)),
              astNewFnDecl("h", <<>>, astNewBlock(
                << astNewCompoundAssign("x", "TOKEN_PLUS_EQUAL", Num(1)),
                   astNewReturn(Var("x")) >>)),
              astNewFnDecl("k", <<>>, astNewBlock(
                << astNewReturn(astNewBinary("TOKEN_PLUS", Var("x"), Var("y"))) >>)),
              PrintStmt(<<Call(Var("h"), <<>>)>>),
              PrintStmt(<<Call(Var("k"), <<>>)>>),
              astNewReturn(Var("k")) >>)),
         PrintStmt(<<Call(Call(Var("f"), <<>>), <<>>)>>) >>)

\* n = 1; n += 1
\* on failure { print(error.type) }
\* exec("a")
LeakThenHandler ==
    astNewProgram(
      << astNewVarDecl("n", Num(1)),
         astNewCompoundAssign("n", "TOKEN_PLUS_EQUAL", Num(1)),
         astNewOnFailure(astNewBlock(<< PrintStmt(<<ErrorType>>) >>)),
         CallStmt(Var("exec"), <<Str("a")>>) >>)

\* fn f() { on failure { return 0 }; a = 0; y = 1; fn h() { return y }
\*          exec("a"); return h }
\* f()
CaptureInProtected ==
    astNewProgram(
      << astNewFnDecl("f", <<>>, astNewBlock(
           << astNewOnFailure(astNewBlock(<< astNewReturn(Num(0)) >>)),
              astNewVarDecl("a", Num(0)),
              astNewVarDecl("y", Num(1)),
              astNewFnDecl("h", <<>>, astNewBlock(<< astNewReturn(Var("y")) >>)),
              CallStmt(Var("exec"), <<Str("a")>>),
              astNewReturn(Var("h")) >>)),
         CallStmt(Var("f"), <<>>) >>)

\* fn f() { y = 1; fn h() { return y }; exec("a"); return h }
\* f()
CaptureThenError ==
    astNewProgram(
      << astNewFnDecl("f", <<>>, astNewBlock(
           << astNewVarDecl("y", Num(1)),
              astNewFnDecl("h", <<>>, astNewBlock(<< astNewReturn(Var("y")) >>)),
              CallStmt(Var("exec"), <<Str("a")>>),
              astNewReturn(Var("h")) >>)),
         CallStmt(Var("f"), <<>>) >>)

Programs ==
    {CounterProgram(0), CounterProgram(1), NestedHandlers, HandlerLocals,
     HandlerRaises, MapFnRaises, AllowProgram, AllowOtherKind, BlockCapture,
     LeakThenHandler, CaptureInProtected, CaptureThenError, SharedCapture,
     DivideByZero, AddWrongType, MapFnFaults, CallWithArgs, ProtectedLocal,
     TopLevelReturn, MapFnNested, MapFnHandled, ImportThenRead,
     ImportUnread, ImportTwice, ImportInFunction, UpvalueRebind,
     ImportThenSet}
        \cup {GatedCall(native) : native \in GatedNatives}
        \cup MatchPrograms
        \cup LoopPrograms

\* The inputs given to the REPL: the scripts that leave something behind in
\* the VM for the next input (handlers, open upvalues, stack slots, grants).
ReplInputs == {NestedHandlers, AllowProgram, LeakThenHandler, CaptureThenError}

(***************************************************************************)
(* The process: main() builds a VM, interprets one script (run) or one     *)
(* script per input (repl), and exits.                                     *)
(***************************************************************************)
Verbs == {"run", "run --allow-all", "repl"}

NoFrame == [closure |-> 0, ip |-> [chunk |-> 0, off |-> 0], slots |-> 0]

\* The modules fs, proc and net are maps from a name to a native.
ModuleFs == 1
ModuleProc == 2
ModuleNet == 3

ModuleMap(module, names) ==
    [kind |-> "map",
     table |-> [n \in names |-> NATIVE_VAL(module \o "." \o n)]]

\* The VM after initVM(), with allowAll as main() sets it for the verb.
initVM(v) ==
    /\ frames = [i \in 0..(FrameSlots - 1) |-> NoFrame]
    /\ frameCount = 0
    /\ stack = [i \in 0..(StackSlots - 1) |-> NIL_VAL]
    /\ stackTop = 0
    /\ globals = [n \in {"print", "exec", "read", "write", "env", "map_fn",
                         "parallel_exec"} |-> NATIVE_VAL(n)]
                    @@ [n \in {"fs"} |-> OBJ_VAL(ModuleFs)]
                    @@ [n \in {"proc"} |-> OBJ_VAL(ModuleProc)]
                    @@ [n \in {"net"} |-> OBJ_VAL(ModuleNet)]
    /\ heap = << ModuleMap("fs", {"exists", "remove"}),
                 ModuleMap("proc", {"exec"}),
                 ModuleMap("net", {"resolve"}) >>
    /\ openUpvalues = 0
    /\ permissions = [initPermissions EXCEPT !.allowAll = (v # "run")]
    /\ handlers = <<>>
    /\ hasError = FALSE
    /\ currentError = NIL_VAL
    /\ baseFrameCount = 0
    /\ modules = <<>>
    /\ objects = <<3, 2, 1>>
    /\ marked = {}
    /\ grayStack = <<>>
    /\ strings = {}
    /\ untilGC = 0
    /\ collected = <<>>
    /\ compiling = <<>>
    /\ globalIC = <<>>
    /\ globalsTable = definedGlobals(Cardinality(DOMAIN globals))
    /\ ip = [chunk |-> 0, off |-> 0]
    /\ cstack = <<>>
    /\ out = <<>>
    /\ err = <<>>
    /\ ext = <<>>
    /\ pushes = 0
    /\ fired = <<>>

Init ==
    /\ verb \in Verbs
    /\ initVM(verb)
    /\ pc = "idle"
    /\ runs = 0
    /\ script = astNewProgram(<<>>)
    /\ result = "none"
    /\ exitCode = -1
    /\ stress = FALSE
    /\ steps = 0
    /\ arg = <<>>
    /\ ret = <<>>

process == <<verb, runs, script, exitCode, arg, ret, stress, steps>>

\* The part of the arrays and of the heap that is modelled has room for one
\* more step: no step pushes more than four values or one frame.
Modelled ==
    /\ stackTop + 4 <= StackSlots
    /\ frameCount + 1 <= FrameSlots
    /\ Len(heap) <= MaxHeap

Dispatching == pc = "dispatch" /\ Modelled

\* vm.scriptPath as main() sets it: the script's path for `run`, here a
\* file of the working directory, and NULL in the REPL.
scriptPath(v) == IF v = "repl" THEN <<>> ELSE <<"s">>

Instr == READ_BYTE(VM, 0)

\* main() hands a script to interpret(): the one script of `run`, or the
\* next input of the REPL.
Interpret ==
    /\ pc = "idle"
    /\ runs < (IF verb = "repl" THEN MaxRuns ELSE 1)
    /\ Modelled
    /\ \E program \in (IF verb = "repl" THEN ReplInputs ELSE Programs) :
          Install(interpret(VM, program)) /\ script' = program
    /\ runs' = runs + 1
    /\ UNCHANGED <<verb, exitCode, arg, ret, stress, steps>>

\* main() returns: the REPL at end of input, `run` with the status for the
\* result of interpret().
Exit ==
    /\ pc = "idle"
    /\ verb = "repl" \/ runs = 1
    /\ pc' = "exited"
    /\ exitCode' = IF verb = "repl" THEN 0
                   ELSE CASE result = "INTERPRET_OK" -> 0
                          [] result = "INTERPRET_COMPILE_ERROR" -> 65
                          [] result = "INTERPRET_RUNTIME_ERROR" -> 70
    /\ UNCHANGED <<frames, frameCount, stack, stackTop, globals, heap,
                   openUpvalues, permissions, handlers, hasError, currentError,
                   baseFrameCount, modules, objects, marked, grayStack, strings,
                   stress, untilGC, collected, compiling, globalIC, globalsTable,
                   steps, ip, cstack, verb, runs, script, result, out,
                   err, ext, pushes, fired, arg, ret>>

Constant == Dispatching /\ Instr = OP_CONSTANT /\ Install(opConstant(VM)) /\ UNCHANGED process
Nil == Dispatching /\ Instr = OP_NIL /\ Install(opNil(VM)) /\ UNCHANGED process
True == Dispatching /\ Instr = OP_TRUE /\ Install(opTrue(VM)) /\ UNCHANGED process
Add == Dispatching /\ Instr = OP_ADD /\ Install(opAdd(VM)) /\ UNCHANGED process
Divide == Dispatching /\ Instr = OP_DIVIDE /\ Install(opDivide(VM)) /\ UNCHANGED process
Import ==
    /\ Dispatching
    /\ Instr = OP_IMPORT
    /\ Install(opImport(VM, scriptPath(verb), Files))
    /\ UNCHANGED process
Equal == Dispatching /\ Instr = OP_EQUAL /\ Install(opEqual(VM)) /\ UNCHANGED process
Less == Dispatching /\ Instr = OP_LESS /\ Install(opLess(VM)) /\ UNCHANGED process
GetLocal == Dispatching /\ Instr = OP_GET_LOCAL /\ Install(opGetLocal(VM)) /\ UNCHANGED process
SetLocal == Dispatching /\ Instr = OP_SET_LOCAL /\ Install(opSetLocal(VM)) /\ UNCHANGED process
GetGlobal == Dispatching /\ Instr = OP_GET_GLOBAL /\ Install(opGetGlobal(VM)) /\ UNCHANGED process
SetGlobal == Dispatching /\ Instr = OP_SET_GLOBAL /\ Install(opSetGlobal(VM)) /\ UNCHANGED process
DefineGlobal ==
    Dispatching /\ Instr = OP_DEFINE_GLOBAL /\ Install(opDefineGlobal(VM)) /\ UNCHANGED process
GetUpvalue == Dispatching /\ Instr = OP_GET_UPVALUE /\ Install(opGetUpvalue(VM)) /\ UNCHANGED process
SetUpvalue == Dispatching /\ Instr = OP_SET_UPVALUE /\ Install(opSetUpvalue(VM)) /\ UNCHANGED process
Jump == Dispatching /\ Instr = OP_JUMP /\ Install(opJump(VM)) /\ UNCHANGED process
Loop == Dispatching /\ Instr = OP_LOOP /\ Install(opLoop(VM)) /\ UNCHANGED process
JumpIfFalse ==
    Dispatching /\ Instr = OP_JUMP_IF_FALSE /\ Install(opJumpIfFalse(VM)) /\ UNCHANGED process
Pop == Dispatching /\ Instr = OP_POP /\ Install(opPop(VM)) /\ UNCHANGED process
Closure == Dispatching /\ Instr = OP_CLOSURE /\ Install(opClosure(VM)) /\ UNCHANGED process
CloseUpvalue ==
    Dispatching /\ Instr = OP_CLOSE_UPVALUE /\ Install(opCloseUpvalue(VM)) /\ UNCHANGED process
Return == Dispatching /\ Instr = OP_RETURN /\ Install(opReturn(VM)) /\ UNCHANGED process
BuildList == Dispatching /\ Instr = OP_BUILD_LIST /\ Install(opBuildList(VM)) /\ UNCHANGED process
IndexGet ==
    Dispatching /\ Instr = OP_INDEX_GET /\ Install(opIndexGet(VM)) /\ UNCHANGED process
GetProperty ==
    Dispatching /\ Instr = OP_GET_PROPERTY /\ Install(opGetProperty(VM)) /\ UNCHANGED process
Allow == Dispatching /\ Instr = OP_ALLOW /\ Install(opAllow(VM)) /\ UNCHANGED process
PushHandler ==
    Dispatching /\ Instr = OP_PUSH_HANDLER /\ Install(opPushHandler(VM)) /\ UNCHANGED process
PopHandler ==
    Dispatching /\ Instr = OP_POP_HANDLER /\ Install(opPopHandler(VM)) /\ UNCHANGED process

\* CALL, first half: callValue.  What the outside world answers to a native
\* (exit status, file found or not) is status.
CallValue ==
    /\ Dispatching
    /\ Instr = OP_CALL
    /\ \E status \in {0, 1} : Install(opCall(VM, status))
    /\ UNCHANGED process

\* CALL, second half.
CheckError == pc = "check" /\ Install(checkError(VM)) /\ UNCHANGED process

\* The behaviour is undefined: the process may crash, or interpret() may
\* come back with either result.
Undefined ==
    /\ pc = "undefined"
    /\ \/ pc' = "crashed" /\ UNCHANGED result
       \/ pc' = "idle" /\ result' \in {"INTERPRET_OK", "INTERPRET_RUNTIME_ERROR"}
    /\ UNCHANGED <<frames, frameCount, stack, stackTop, globals, heap,
                   openUpvalues, permissions, handlers, hasError, currentError,
                   baseFrameCount, modules, objects, marked, grayStack, strings,
                   stress, untilGC, collected, compiling, globalIC, globalsTable,
                   steps, ip, cstack, verb, runs, script, exitCode, out,
                   err, ext, pushes, fired, arg, ret>>

Next ==
    \/ Interpret \/ Exit
    \/ Constant \/ Nil \/ True \/ Add \/ Divide \/ Equal \/ Less \/ GetLocal \/ SetLocal
    \/ GetGlobal \/ SetGlobal \/ DefineGlobal \/ GetUpvalue \/ SetUpvalue \/ Jump
    \/ Loop \/ JumpIfFalse \/ Pop \/ Closure \/ CloseUpvalue \/ Return \/ BuildList
    \/ IndexGet \/ GetProperty \/ Allow \/ PushHandler \/ PopHandler
    \/ CallValue \/ CheckError \/ Import \/ Undefined

Spec == Init /\ [][Next]_vars

\* The modelled scripts stay inside the modelled part of the arrays.
WithinModel ==
    /\ stackTop \in 0..StackSlots
    /\ frameCount \in 0..FrameSlots

(***************************************************************************)
(* globMatch on its own: every pattern and text of up to MaxGlobLen bytes  *)
(* over GlobBytes.                                                         *)
(***************************************************************************)
machine == <<frames, frameCount, stack, stackTop, globals, heap, openUpvalues,
             handlers, hasError, currentError, baseFrameCount, modules, objects,
             marked, grayStack, strings, stress, untilGC, collected, compiling,
             globalIC, globalsTable,
             steps, ip, pc,
             cstack, result, out, err, ext, pushes, fired>>

GlobInit ==
    /\ verb = "run"
    /\ initVM(verb)
    /\ pc = "glob"
    /\ runs = 0
    /\ script = astNewProgram(<<>>)
    /\ result = "none"
    /\ exitCode = -1
    /\ stress = FALSE
    /\ steps = 0
    /\ arg \in {<<[pattern |-> p, text |-> t]>> : p \in ByteStrings, t \in ByteStrings}
    /\ ret = <<>>

Match ==
    /\ pc = "glob"
    /\ ret = <<>>
    /\ ret' = <<globMatch(arg[1].pattern, arg[1].text)>>
    /\ UNCHANGED <<machine, permissions, verb, runs, script, exitCode, arg>>

SpecGlob == GlobInit /\ [][Match]_vars

(***************************************************************************)
(* The permission set on its own: grants are added in any order and        *)
(* hasPermission is asked about any kind and target.                       *)
(***************************************************************************)
PermKinds == {PERM_EXEC, PERM_READ, PERM_WRITE}
PermGlobs == {"/a", "/*", "*"}
PermTargets == {"/a", "/aa", "a"}

PermInit ==
    /\ verb \in {"run", "run --allow-all"}
    /\ initVM(verb)
    /\ pc = "perm"
    /\ runs = 0
    /\ script = astNewProgram(<<>>)
    /\ result = "none"
    /\ exitCode = -1
    /\ stress = FALSE
    /\ steps = 0
    /\ arg = <<>>
    /\ ret = <<>>

Grant ==
    /\ pc = "perm"
    /\ Len(permissions.permissions) < MaxPerms
    /\ \E type \in PermKinds, glob \in PermGlobs :
          permissions' = addPermission(permissions, type, glob)
    /\ UNCHANGED <<machine, verb, runs, script, exitCode, arg, ret>>

Query ==
    /\ pc = "perm"
    /\ \E type \in PermKinds, target \in PermTargets :
          /\ arg' = <<[set |-> permissions, type |-> type, target |-> target]>>
          /\ ret' = <<hasPermission(permissions, type, target)>>
    /\ UNCHANGED <<machine, permissions, verb, runs, script, exitCode>>

PermNext == Grant \/ Query

SpecPerm == PermInit /\ [][PermNext]_vars

(***************************************************************************)
(* C1.  The handler that fires.                                            *)
(***************************************************************************)
\* A raised error is pending after a Call and a handler is registered.
HandlerFires == pc = "check" /\ hasError /\ handlers # <<>>

PushesHandler == Dispatching /\ Instr = OP_PUSH_HANDLER /\ handlers' # handlers

\* C1: PushHandler records the frame count, the stack top and the address
\* of the handler body; when an error is pending after a Call and the
\* handler stack is not empty, the handler pushed last among those not
\* popped fires, frame count, stack top and ip get the recorded values, the
\* error value is the one slot above the restored stack top and hasError is
\* cleared.
C1_InnermostHandlerFires ==
    [][ /\ PushesHandler =>
             LET h == handlers'[Len(handlers')]
             IN  /\ handlers' = Append(handlers, h)
                 /\ h.frameCount = frameCount
                 /\ h.stackTop = stackTop
                 /\ h.handlerIP = [chunk |-> ip.chunk,
                                   off |-> ip.off + 3 + READ_SHORT(VM, 1)]
                 /\ \A i \in 1..Len(handlers) : handlers[i].seq < h.seq
        /\ HandlerFires =>
             LET h == handlers[Len(handlers)]
             IN  /\ \A i \in 1..Len(handlers) : handlers[i].seq <= h.seq
                 /\ fired' = Append(fired, h.seq)
                 /\ frameCount' = h.frameCount
                 /\ ip' = h.handlerIP
                 /\ stackTop' = h.stackTop + 1
                 /\ stack'[h.stackTop] = currentError
                 /\ hasError' = FALSE
                 /\ pc' = "dispatch"
      ]_vars

\* The inner of two registered handlers has just fired: the VM is at its
\* body with the error map on top of the restored stack.
C1_Witness ==
    /\ Len(handlers) >= 2
    /\ fired # <<>>
    /\ fired[Len(fired)] = handlers[Len(handlers)].seq
    /\ pc = "dispatch"
    /\ ip = handlers[Len(handlers)].handlerIP
    /\ frameCount = handlers[Len(handlers)].frameCount
    /\ stackTop = handlers[Len(handlers)].stackTop + 1
    /\ IS_MAP(VM, stack[stackTop - 1])
    /\ ~hasError

(***************************************************************************)
(* C2.  An error raised by a handler's body.                               *)
(***************************************************************************)
\* C2: an error raised in the body of a handler goes to the next outer
\* handler or ends the run, so no handler that was pushed once fires twice.
C2_HandlerFiresOnce ==
    \A i, j \in 1..Len(fired) : i # j => fired[i] # fired[j]

(***************************************************************************)
(* C3.  The slot of the local `error`.                                     *)
(***************************************************************************)
\* The handler bodies of the function the VM is executing, each with the
\* offset of its first instruction and the local slot of `error`.
ErrorLocals == IF frameCount >= 1 /\ ip.chunk \in 1..Len(heap)
                  /\ heap[ip.chunk].kind = "closure"
               THEN heap[ip.chunk].function.errorLocal
               ELSE <<>>

\* C3: at the first instruction of a handler body the local slot the
\* compiler gave to `error` is the slot the VM pushed the error value into,
\* the one on top of the stack, and it holds the error map.
C3_ErrorLocalIsPushedSlot ==
    \A k \in 1..Len(ErrorLocals) :
        (pc = "dispatch" /\ ip.off = ErrorLocals[k].entry) =>
            /\ frames[frameCount - 1].slots + ErrorLocals[k].slot = stackTop - 1
            /\ IS_MAP(VM, stack[frames[frameCount - 1].slots + ErrorLocals[k].slot])

(***************************************************************************)
(* C4.  An error nobody handles.                                           *)
(***************************************************************************)
Unhandled == pc = "check" /\ hasError /\ handlers = <<>>

\* C4: when an error is pending after a Call and no handler is registered,
\* its message is printed and run() ends there with the runtime-error
\* result, no further instruction being executed; `run` then exits with 70.
C4_UnhandledErrorEndsRun ==
    [][ /\ Unhandled =>
             /\ Len(err') = Len(err) + 1
             /\ pc' = "idle"
             /\ result' = "INTERPRET_RUNTIME_ERROR"
        /\ (pc' = "exited" /\ verb # "repl" /\ result = "INTERPRET_RUNTIME_ERROR")
               => exitCode' = 70
      ]_vars

(***************************************************************************)
(* C5.  Gated natives called without permission.                           *)
(***************************************************************************)
\* The (kind, target) of the call is not authorised: the target is the
\* first argument, or any command of the list given to parallel_exec.
Unauthorised(name, a) ==
    IF name = "parallel_exec"
    THEN /\ IS_LIST(VM, a)
         /\ \E i \in 1..Len(heap[a.id].items) :
               /\ IS_STRING(heap[a.id].items[i])
               /\ ~hasPermission(permissions, PERM_EXEC, heap[a.id].items[i].s)
    ELSE IS_STRING(a) /\ ~hasPermission(permissions, GatedKind[name], a.s)

\* The Call at ip calls a gated native with a target it may not touch.
DeniedCall ==
    /\ Dispatching
    /\ Instr = OP_CALL
    /\ READ_BYTE(VM, 1) >= 1
    /\ stackTop >= READ_BYTE(VM, 1) + 1
    /\ IS_NATIVE(peek(VM, READ_BYTE(VM, 1)))
    /\ peek(VM, READ_BYTE(VM, 1)).name \in GatedNatives
    /\ Unauthorised(peek(VM, READ_BYTE(VM, 1)).name,
                    args(VM, READ_BYTE(VM, 1), 0))

\* C5: a call of a gated native whose (kind, target) is not authorised
\* performs no external operation and leaves a pending raised error whose
\* type is "permission".
C5_DeniedCallIsInert ==
    [][ DeniedCall =>
          /\ ext' = ext
          /\ hasError'
          /\ IS_HEAP(currentError')
          /\ currentError'.id \in 1..Len(heap')
          /\ heap'[currentError'.id].kind = "map"
          /\ tableHas(heap'[currentError'.id].table, "type")
          /\ heap'[currentError'.id].table["type"] = STRING_VAL("permission")
      ]_vars

(***************************************************************************)
(* C6.  hasPermission(kind, target) is true if and only if allow-all is    *)
(* set or some entry of the list has the queried kind and a glob that      *)
(* matches the target; entries of other kinds never authorise the query.   *)
(***************************************************************************)
Authorises(entry, type, target) ==
    entry.type = type /\ globMatch(Bytes(entry.target), Bytes(target))

\* C6: the answer to every query is allow-all or the existence of an entry
\* of the same kind whose glob matches; with allow-all off and no entry of
\* the queried kind the answer is false.
C6_HasPermissionIff ==
    ret # <<>> =>
        LET q == arg[1]
            entries == q.set.permissions
        IN  /\ ret[1] = (q.set.allowAll
                         \/ \E i \in 1..Len(entries) :
                               Authorises(entries[i], q.type, q.target))
            /\ (~q.set.allowAll /\ \A i \in 1..Len(entries) : entries[i].type # q.type)
                   => ret[1] = FALSE

\* A query that is refused although an entry of another kind has a glob
\* that matches the target.
C6_Witness ==
    /\ ret = <<FALSE>>
    /\ \E i \in 1..Len(arg[1].set.permissions) :
          /\ arg[1].set.permissions[i].type # arg[1].type
          /\ globMatch(Bytes(arg[1].set.permissions[i].target), Bytes(arg[1].target))

(***************************************************************************)
(* C7.  globMatch against the definition of a glob: the text is the        *)
(* pattern with each `*` replaced by some run of bytes.                    *)
(***************************************************************************)
RECURSIVE Obtainable(_, _)
Obtainable(pattern, text) ==
    IF pattern = <<>> THEN text = <<>>
    ELSE IF Head(pattern) = "*"
    THEN \E k \in 0..Len(text) :
            Obtainable(Tail(pattern), SubSeq(text, k + 1, Len(text)))
    ELSE /\ text # <<>>
         /\ Head(text) = Head(pattern)
         /\ Obtainable(Tail(pattern), Tail(text))

HasStar(pattern) == \E i \in 1..Len(pattern) : pattern[i] = "*"

\* C7: globMatch returns, and returns true exactly when the text can be
\* obtained from the pattern by replacing each `*` with a run of zero or
\* more bytes; a pattern without `*` matches only itself and `*` alone
\* matches every text.
C7_GlobMatchExact ==
    ret # <<>> =>
        /\ ret[1] \in BOOLEAN
        /\ ret[1] = Obtainable(arg[1].pattern, arg[1].text)
        /\ ~HasStar(arg[1].pattern) => (ret[1] = (arg[1].pattern = arg[1].text))
        /\ arg[1].pattern = <<"*">> => ret[1] = TRUE

\* A match in which a star in the middle stands for a run of bytes and a
\* star at the end for the empty run.
C7_Witness ==
    /\ ret = <<TRUE>>
    /\ arg[1].pattern = <<"*", "a", "*">>
    /\ arg[1].text = <<"/", "/", "a">>


(***************************************************************************)
(* C8.  The permission set in the VM.                                      *)
(***************************************************************************)
AllKinds == {PERM_EXEC, PERM_NET, PERM_READ, PERM_WRITE, PERM_ENV}

ExecutesAllow == Dispatching /\ Instr = OP_ALLOW

\* C8: a VM started with no grants and allow-all off authorises nothing;
\* the list changes only by an Allow instruction, which appends its (kind,
\* glob) and leaves the entries before it as they were; hasPermission turns
\* true only by an Allow whose kind and glob match, and once true stays
\* true, whatever the step: a return, a handler unwind, a runtime error.
C8_PermissionsOnlyGrow ==
    [][ LET p == permissions.permissions
            q == permissions'.permissions
        IN  /\ (runs = 0 /\ verb = "run") =>
                  \A k \in AllKinds, t \in PermTargets :
                      ~hasPermission(permissions, k, t)
            /\ permissions'.allowAll = permissions.allowAll
            /\ Len(q) >= Len(p)
            /\ SubSeq(q, 1, Len(p)) = p
            /\ q # p =>
                  /\ ExecutesAllow
                  /\ q = Append(p, [type |-> READ_BYTE(VM, 1),
                                    target |-> READ_CONSTANT(VM, 2).s])
            /\ \A k \in AllKinds, t \in PermTargets :
                  /\ hasPermission(permissions, k, t)
                        => hasPermission(permissions', k, t)
                  /\ (~hasPermission(permissions, k, t)
                         /\ hasPermission(permissions', k, t))
                        => /\ ExecutesAllow
                           /\ READ_BYTE(VM, 1) = k
                           /\ globMatch(Bytes(READ_CONSTANT(VM, 2).s), Bytes(t))
      ]_vars

\* The grant made inside f authorises a read after f returned and after a
\* handler unwound the stack: the file "/aa" has been opened.
C8_Witness ==
    /\ verb = "run"
    /\ script = AllowProgram
    /\ fired # <<>>
    /\ Len(permissions.permissions) = 1
    /\ \E i \in 1..Len(ext) : ext[i] = [op |-> "fopen rb", target |-> "/aa"]

(***************************************************************************)
(* C9.  The counter closure.                                               *)
(***************************************************************************)
IsCounter == \E live \in {0, 1} : script = CounterProgram(live)

\* What CounterProgram prints once it has run to its end.
CounterCalls == IF script = CounterProgram(1) THEN NumCalls + 1 ELSE NumCalls

\* C9: the k-th call of the counter closure returns k + 1, while the
\* captured variable is on the stack and after the enclosing function has
\* returned, and the script makes all its calls.
C9_CounterReturnsKPlusOne ==
    IsCounter =>
        /\ \A k \in 1..Len(out) : out[k] = <<NUMBER_VAL(k + 1)>>
        /\ pc = "idle" => (result = "INTERPRET_OK" /\ Len(out) = CounterCalls)
        /\ pc \in {"idle", "dispatch", "check", "exited"}

\* The run with one call before and NumCalls calls after the return of the
\* enclosing function has ended.
C9_Witness ==
    /\ script = CounterProgram(1)
    /\ pc = "idle"
    /\ result = "INTERPRET_OK"
    /\ Len(out) = NumCalls + 1
    /\ out[1] = <<NUMBER_VAL(2)>>
    /\ out[Len(out)] = <<NUMBER_VAL(NumCalls + 2)>>

(***************************************************************************)
(* C10.  Where upvalues point.                                             *)
(***************************************************************************)
\* The upvalues on the open list from upvalue on.
RECURSIVE OpenFrom(_)
OpenFrom(upvalue) ==
    IF upvalue = 0 THEN {} ELSE {upvalue} \cup OpenFrom(heap[upvalue].next)

\* C10: every upvalue on the open list points to a slot below the stack
\* top, and every other upvalue points to its own `closed` field.
C10_UpvaluesPointToLiveSlots ==
    /\ \A u \in OpenFrom(openUpvalues) : heap[u].location \in 0..(stackTop - 1)
    /\ \A u \in 1..Len(heap) :
          (heap[u].kind = "upvalue" /\ u \notin OpenFrom(openUpvalues))
              => heap[u].location = SelfClosed

(***************************************************************************)
(* C11.  The open-upvalue list.                                            *)
(***************************************************************************)
\* The upvalue objects a closure refers to.
UpvaluesOf(closure) ==
    {heap[closure].upvalues[i] : i \in 1..Len(heap[closure].upvalues)} \ {0}

Closures == {c \in 1..Len(heap) : heap[c].kind = "closure"}

\* C11: the open-upvalue list is in strictly descending order of stack
\* slot (so it holds at most one upvalue per slot), every upvalue that is
\* still open is on it, and two closures whose upvalues point to the same
\* stack slot refer to the same upvalue object.
C11_OpenListSortedAndShared ==
    /\ \A u \in OpenFrom(openUpvalues) :
          heap[u].next # 0 => heap[heap[u].next].location < heap[u].location
    /\ \A u \in 1..Len(heap) :
          (heap[u].kind = "upvalue" /\ heap[u].location # SelfClosed)
              => u \in OpenFrom(openUpvalues)
    /\ \A c1, c2 \in Closures : \A u1 \in UpvaluesOf(c1), u2 \in UpvaluesOf(c2) :
          (heap[u1].location # SelfClosed
             /\ heap[u1].location = heap[u2].location) => u1 = u2

\* Three closures are alive over two captured locals: the list holds two
\* upvalues, and two different closures share the one of the lower slot,
\* which was put on the list behind the other.
C11_Witness ==
    /\ script = SharedCapture
    /\ Cardinality(OpenFrom(openUpvalues)) = 2
    /\ heap[openUpvalues].next # 0
    /\ \E c1, c2 \in Closures :
          /\ c1 # c2
          /\ heap[openUpvalues].next \in UpvaluesOf(c1) \cap UpvaluesOf(c2)


(***************************************************************************)
(* The heap under collection.  Strings, functions and natives are objects  *)
(* here, a value that refers to one is OBJ_VAL of its place in the heap,   *)
(* and the keys of vm->globals and of a map's table are string objects.    *)
(* An object that was freed keeps its place in the heap, not on the list   *)
(* vm->objects; code that reads or writes it has undefined behaviour.      *)
(***************************************************************************)
MaxObjects == 12    \* objects allocated in one execution
MaxChars == 2       \* bytes of a string built by concatenation
GcDistance == 3     \* allocations from the start of a step to a collection
GcSlots == 3        \* stack slots in use
MaxSteps == 5       \* instructions executed

newString(chars) == [kind |-> "string", chars |-> chars]

newNative(name) == [kind |-> "native", name |-> name]

newFunctionObject ==
    [kind |-> "function", name |-> 0, upvalueCount |-> 0, count |-> 0,
     capacity |-> 0, constants |-> <<>>, constantsCapacity |-> 0,
     indexCount |-> 0, indexCapacity |-> 0]

newClosureObject(m, function) ==
    [kind |-> "closure", function |-> function,
     upvalues |-> [i \in 1..m.heap[function].upvalueCount |-> 0]]

\* table.c tableFindString on vm->strings: the interned string of these
\* bytes, or NULL.
tableFindString(m, chars) ==
    IF \E s \in m.strings : m.heap[s].chars = chars
    THEN CHOOSE s \in m.strings : m.heap[s].chars = chars
    ELSE 0

\* allocateString: the string is on the stack while the intern table takes
\* it, which grows when grow.
allocateString(m, chars, grow) ==
    LET string == Len(m.heap) + 1
        insert(m1) == pop([m1 EXCEPT !.strings = @ \cup {string}])
        intern(m1) == insert(IF grow THEN reallocate(m1) ELSE m1)
    IN  intern(vmPush(allocate(m, newString(chars)), OBJ_VAL(string)))

\* A string construction that does not look for an interned string.
copyFresh(m, chars, grow) ==
    IF m.pc = "undefined" THEN m ELSE allocateString(m, chars, grow)

\* The result of copyString and takeString is tableFindString afterwards.
copyString(m, chars, grow) ==
    IF m.pc = "undefined" \/ tableFindString(m, chars) # 0 THEN m
    ELSE allocateString(m, chars, grow)

takeString(m, chars, grow) ==
    IF m.pc = "undefined" \/ tableFindString(m, chars) # 0 THEN m
    ELSE allocateString(m, chars, grow)

(***************************************************************************)
(* Compilation (compiler.c, chunk.c) as far as it allocates: the function  *)
(* objects, their names, their string constants and the arrays of their    *)
(* chunks.  A source is a sequence of items: a string literal as an        *)
(* expression statement, or a function declaration with a body of items.   *)
(***************************************************************************)
Literal(chars) == [t |-> "literal", chars |-> chars]

Function(name, upvalueCount, body) ==
    [t |-> "function", name |-> name, upvalueCount |-> upvalueCount,
     body |-> body]

\* compiler->function of the innermost compiler
current(m) == m.compiling[Len(m.compiling)]

\* One byte emitted into the chunk of the current function.
writeChunk(m) ==
    LET f == current(m)
        grown == m.heap[f].capacity < m.heap[f].count + 1
        write(m1) ==
            IF ~allocated(m1, f) THEN undefined(m1)
            ELSE [m1 EXCEPT !.heap[f].count = @ + 1,
                            !.heap[f].capacity =
                                IF grown THEN GROW_CAPACITY(@) ELSE @]
    IN  IF m.pc = "undefined" THEN m
        ELSE IF grown THEN write(reallocate(reallocate(m)))
        ELSE write(m)

emitTwo(m) == writeChunk(writeChunk(m))

writeValueArray(m, f, value) ==
    LET grown == m.heap[f].constantsCapacity < Len(m.heap[f].constants) + 1
        write(m1) ==
            IF ~allocated(m1, f) THEN undefined(m1)
            ELSE [m1 EXCEPT !.heap[f].constants = Append(@, value),
                            !.heap[f].constantsCapacity =
                                IF grown THEN (IF @ < 8 THEN 8 ELSE @ * 2)
                                ELSE @]
    IN  IF grown THEN write(reallocate(m)) ELSE write(m)

\* `tableSet(&chunk->constantIndex, AS_STRING(value), NUMBER_VAL(index))`
indexSet(m, f, string) ==
    LET grown == tableGrows(m.heap[f].indexCount, m.heap[f].indexCapacity)
        set(m1) ==
            IF ~allocated(m1, f) \/ ~allocated(m1, string) THEN undefined(m1)
            ELSE [m1 EXCEPT !.heap[f].indexCount = @ + 1,
                            !.heap[f].indexCapacity =
                                IF grown THEN GROW_CAPACITY(@) ELSE @]
    IN  IF m.pc = "undefined" THEN m
        ELSE IF grown THEN set(reallocate(m))
        ELSE set(m)

\* addConstant on the chunk of the current function, from makeConstant.
gcAddConstant(m, value) ==
    LET f == current(m)
    IN  IF m.pc = "undefined" THEN m
        ELSE IF ~allocated(m, f) \/ ~allocated(m, value.id) THEN undefined(m)
        ELSE IF \E i \in 1..Len(m.heap[f].constants) :
                    m.heap[f].constants[i] = value
        THEN m
        ELSE IF m.heap[value.id].kind = "string"
        THEN indexSet(writeValueArray(m, f, value), f, value.id)
        ELSE writeValueArray(m, f, value)

\* A string literal as a statement: copyString, OP_CONSTANT k, OP_POP.
gcCompileLiteral(m, chars, grow) ==
    LET emit(m1) ==
            writeChunk(emitTwo(
                gcAddConstant(m1, OBJ_VAL(tableFindString(m1, chars)))))
    IN  emit(copyString(m, chars, grow))

gcInitCompiler(m) ==
    LET enter(m1) == [m1 EXCEPT !.compiling = Append(@, Len(m1.heap))]
    IN  enter(allocate(m, newFunctionObject))

RECURSIVE gcCompileItems(_, _, _, _)
RECURSIVE gcCompileFunction(_, _, _)

gcCompileItems(m, items, i, grow) ==
    IF i > Len(items) \/ m.pc = "undefined" THEN m
    ELSE gcCompileItems(
            IF items[i].t = "literal"
            THEN gcCompileLiteral(m, items[i].chars, grow)
            ELSE gcCompileFunction(m, items[i], grow),
            items, i + 1, grow)

\* compileFunction in a new compiler, then OP_CLOSURE with its operands in
\* the enclosing one, then the name as a constant and OP_DEFINE_GLOBAL.
gcCompileFunction(m, item, grow) ==
    LET name(m1) ==
            IF m1.pc = "undefined" THEN m1
            ELSE IF ~allocated(m1, current(m1)) THEN undefined(m1)
            ELSE [m1 EXCEPT !.heap[current(m1)].name =
                                tableFindString(m1, item.name),
                            !.heap[current(m1)].upvalueCount =
                                item.upvalueCount]
        body(m1) == emitTwo(gcCompileItems(m1, item.body, 1, grow))
        leave(m1) ==
            IF m1.pc = "undefined" THEN m1
            ELSE gcAddConstant(
                    [m1 EXCEPT !.compiling = SubSeq(@, 1, Len(@) - 1)],
                    OBJ_VAL(current(m1)))
        operands(m1) ==
            IF item.upvalueCount = 0 THEN emitTwo(m1)
            ELSE emitTwo(emitTwo(m1))
        define(m1) ==
            emitTwo(gcAddConstant(m1, OBJ_VAL(tableFindString(m1, item.name))))
    IN  define(copyString(
            operands(leave(body(name(
                copyString(gcInitCompiler(m), item.name, grow))))),
            item.name, grow))

\* compile(): the function of the script, which is then no longer under
\* compilation.
gcCompile(m, source, grow) ==
    emitTwo(gcCompileItems(gcInitCompiler(m), source, 1, grow))

\* interpret(): compile, push the function, wrap it, call the closure.
gcInterpret(m, source, grow) ==
    LET call(m1) ==
            [m1 EXCEPT !.frames[m1.frameCount] =
                           [closure |-> peek(m1, 0).id,
                            ip |-> [chunk |-> peek(m1, 0).id, off |-> 0],
                            slots |-> m1.stackTop - 1],
                       !.frameCount = @ + 1,
                       !.pc = "run"]
        closure(m1) == call(push(pop(m1), OBJ_VAL(Len(m1.heap))))
        wrap(m1) ==
            closure(allocate(m1, newClosureObject(m1, peek(m1, 0).id)))
        function(m1) ==
            IF m1.pc = "undefined" THEN m1
            ELSE IF ~allocated(m1, m1.compiling[1]) THEN undefined(m1)
            ELSE wrap(push([m1 EXCEPT !.compiling = <<>>],
                           OBJ_VAL(m1.compiling[1])))
    IN  function(gcCompile(m, source, grow))

(***************************************************************************)
(* Execution as far as it allocates or changes what can be reached: the    *)
(* instructions below, applied to the script's frame with operands that    *)
(* its chunk can hold, and a native that raises an error.                  *)
(***************************************************************************)
\* `tableSet(&vm->globals, name, value)`; the table grows when grow.
globalSet(m, name, value, grow) ==
    LET set(m1) ==
            IF ~allocated(m1, name) THEN undefined(m1)
            ELSE [m1 EXCEPT !.globals = tableSet(@, name, value)]
    IN  IF m.pc = "undefined" THEN m
        ELSE IF grow /\ ~tableHas(m.globals, name) THEN set(reallocate(m))
        ELSE set(m)

\* `tableSet(&map->table, key, value)` on a map object
mapSet(m, map, key, value) ==
    LET grown == ~tableHas(m.heap[map].table, key)
                 /\ tableGrows(Cardinality(DOMAIN m.heap[map].table),
                               m.heap[map].capacity)
        set(m1) ==
            IF ~allocated(m1, map) \/ ~allocated(m1, key) THEN undefined(m1)
            ELSE [m1 EXCEPT !.heap[map].table = tableSet(@, key, value),
                            !.heap[map].capacity =
                                IF grown THEN GROW_CAPACITY(@) ELSE @]
    IN  IF m.pc = "undefined" THEN m
        ELSE IF ~allocated(m, map) \/ ~allocated(m, key) THEN undefined(m)
        ELSE IF grown THEN set(reallocate(m))
        ELSE set(m)

newMapObject == [kind |-> "map", table |-> <<>>, capacity |-> 0]

defineNative(m, name, grow) ==
    LET native(m1) ==
            rawPush(allocate(m1, newNative(name)), OBJ_VAL(Len(m1.heap) + 1))
        define(m1) ==
            [globalSet(m1, m1.stack[0].id, m1.stack[1], grow)
                EXCEPT !.stackTop = @ - 2]
        string(m1) == rawPush(m1, OBJ_VAL(tableFindString(m1, name)))
    IN  define(native(string(copyString(m, name, grow))))

\* The function of the running frame.
gcFunction(m) == m.heap[m.heap[frame(m).closure].function]

\* The constants a chunk of the running function can name, by kind.
ConstantsOf(m, kind) ==
    {k \in 1..Len(gcFunction(m).constants) :
        m.heap[gcFunction(m).constants[k].id].kind = kind}

\* The slots of the frame above the closure.
Locals(m) == (frame(m).slots + 1)..(m.stackTop - 1)

gcConstant(m, k) == push(m, gcFunction(m).constants[k])

\* concatenate(): the bytes are allocated, then taken by takeString.
gcConcatenate(m, grow) ==
    LET chars == m.heap[peek(m, 1).id].chars \o m.heap[peek(m, 0).id].chars
        taken(m1) ==
            IF m1.pc = "undefined" THEN m1
            ELSE push(pop(pop(m1)), OBJ_VAL(tableFindString(m1, chars)))
    IN  taken(takeString(reallocate(m), chars, grow))

RECURSIVE gcAppendAll(_, _, _)
gcAppendAll(m, list, i) ==
    IF i = 0 \/ m.pc = "undefined" THEN m
    ELSE gcAppendAll(listAppend(m, list, m.stack[m.stackTop - 1 - i]),
                     list, i - 1)

gcBuildList(m, count) ==
    LET list == Len(m.heap) + 1
        build(m1) ==
            IF m1.pc = "undefined" THEN m1
            ELSE push([m1 EXCEPT !.stackTop = @ - (count + 1)], OBJ_VAL(list))
    IN  build(gcAppendAll(push(allocate(m, newList), OBJ_VAL(list)), list,
                          count))

gcDefineGlobal(m, k, grow) ==
    LET defined(m1) == IF m1.pc = "undefined" THEN m1 ELSE pop(m1)
    IN  defined(globalSet(m, gcFunction(m).constants[k].id, peek(m, 0), grow))

\* OP_CLOSURE of a function with at most one upvalue, which captures the
\* local at slot.
gcClosure(m, k, slot) ==
    LET function == gcFunction(m).constants[k].id
        closure == Len(m.heap) + 1
        capture(m1) ==
            IF m.heap[function].upvalueCount = 0 THEN m1
            ELSE LET c == captureUpvalue(m1, slot)
                 IN  [c.m EXCEPT !.heap[closure].upvalues[1] = c.upvalue]
        array(m1) ==
            IF m.heap[function].upvalueCount = 0 THEN m1 ELSE reallocate(m1)
    IN  capture(push(allocate(array(m), newClosureObject(m, function)),
                     OBJ_VAL(closure)))

gcCloseUpvalue(m) == pop(closeUpvalues(m, m.stackTop - 1))

\* raiseError(): the error map is on the stack while its two entries are
\* built; their keys and values are held in C variables only.
gcRaiseError(m, message, type, grow) ==
    LET map == Len(m.heap) + 1
        raised(m1) ==
            IF m1.pc = "undefined" THEN m1
            ELSE [pop(m1) EXCEPT !.hasError = TRUE,
                                 !.currentError = OBJ_VAL(map)]
        typeVal(m1, typeKey) ==
            LET set(m2) == mapSet(m2, map, typeKey, OBJ_VAL(tableFindString(m2, type)))
            IN  set(copyString(m1, type, grow))
        typeKey(m1) ==
            LET val(m2) == typeVal(m2, tableFindString(m2, "type"))
            IN  val(copyString(m1, "type", grow))
        msgVal(m1, msgKey) ==
            LET set(m2) == mapSet(m2, map, msgKey, OBJ_VAL(tableFindString(m2, message)))
            IN  set(copyString(m1, message, grow))
        msgKey(m1) ==
            LET val(m2) == msgVal(m2, tableFindString(m2, "message"))
            IN  val(copyString(m1, "message", grow))
    IN  raised(typeKey(msgKey(push(allocate(m, newMapObject), OBJ_VAL(map)))))

\* The check after a native has returned with hasError set and no handler
\* installed: the message is looked up in the error map and reported.
gcCheckError(m, grow) ==
    LET map == m.currentError.id
        report(m1) ==
            IF m1.pc = "undefined" THEN m1
            ELSE IF ~allocated(m1, map)
                    \/ ~allocated(m1, tableFindString(m1, "message"))
            THEN undefined(m1)
            ELSE [runtimeError(m1, "Runtime error.")
                     EXCEPT !.hasError = FALSE, !.currentError = NIL_VAL,
                            !.result = "INTERPRET_RUNTIME_ERROR",
                            !.pc = "idle"]
    IN  report(copyString(m, "message", grow))

\* `tableSet(&vm->modules, path, value)`; the cache grows with its first
\* entry and when grow.
moduleSet(m, path, value, grow) ==
    LET set(m1) ==
            IF ~allocated(m1, path) THEN undefined(m1)
            ELSE [m1 EXCEPT !.modules = tableSet(@, path, value)]
    IN  IF m.pc = "undefined" THEN m
        ELSE IF DOMAIN m.modules = {} \/ (grow /\ ~tableHas(m.modules, path))
        THEN set(reallocate(m))
        ELSE set(m)

\* OP_IMPORT of a module file without statements, the path at constant k
\* being the binding name as well: a cached module is bound; otherwise
\* the globals are copied, the module is compiled and run, which leaves
\* its result in place of its closure, and its empty export map is put
\* into the cache and bound.
gcImport(m, k, grow) ==
    LET path == gcFunction(m).constants[k].id
        modName == path
        bind(m1) ==
            globalSet(moduleSet(pop(m1), path, OBJ_VAL(Len(m1.heap)), grow),
                      modName, OBJ_VAL(Len(m1.heap)), grow)
        export(m1) ==
            IF m1.pc = "undefined" THEN m1
            ELSE bind(push(allocate(m1, newMapObject), OBJ_VAL(Len(m1.heap) + 1)))
        ran(m1) == push(pop(m1), NIL_VAL)
        closure(m1) == push(pop(m1), OBJ_VAL(Len(m1.heap)))
        wrap(m1) ==
            closure(allocate(m1, newClosureObject(m1, peek(m1, 0).id)))
        function(m1) ==
            IF m1.pc = "undefined" THEN m1
            ELSE IF ~allocated(m1, current(m1)) THEN undefined(m1)
            ELSE export(ran(wrap(
                    push([m1 EXCEPT !.compiling = <<>>], OBJ_VAL(current(m1))))))
    IN  IF tableHas(m.modules, path)
        THEN globalSet(m, modName, m.modules[path], grow)
        ELSE function(gcCompile(reallocate(m), <<>>, grow))

\* OP_RETURN of the script's frame.
gcReturn(m) ==
    [pop([closeUpvalues(m, frame(m).slots) EXCEPT !.frameCount = @ - 1])
        EXCEPT !.result = "INTERPRET_OK", !.pc = "idle"]

(***************************************************************************)
(* The specification of the heap under collection.  The build collects at  *)
(* every allocation (stress), or it collects at the allocation that takes  *)
(* bytesAllocated over nextGC; initVM is cut down to the one native print. *)
(***************************************************************************)
GcSources ==
    { <<Literal("a"), Literal("b")>>,
      <<Function("f", 1, <<Literal("a")>>)>> }

\* The variables of the VM have the values of the record.
Holds(m) ==
    /\ frames = m.frames
    /\ frameCount = m.frameCount
    /\ stack = m.stack
    /\ stackTop = m.stackTop
    /\ globals = m.globals
    /\ heap = m.heap
    /\ openUpvalues = m.openUpvalues
    /\ permissions = m.permissions
    /\ handlers = m.handlers
    /\ hasError = m.hasError
    /\ currentError = m.currentError
    /\ baseFrameCount = m.baseFrameCount
    /\ modules = m.modules
    /\ objects = m.objects
    /\ marked = m.marked
    /\ grayStack = m.grayStack
    /\ strings = m.strings
    /\ untilGC = m.untilGC
    /\ collected = m.collected
    /\ compiling = m.compiling
    /\ globalIC = m.globalIC
    /\ globalsTable = m.globalsTable
    /\ ip = m.ip
    /\ pc = m.pc
    /\ cstack = m.cstack
    /\ result = m.result
    /\ out = m.out
    /\ err = m.err
    /\ ext = m.ext
    /\ pushes = m.pushes
    /\ fired = m.fired

\* The VM of this build before initVM() defines the natives.
gcNewVM(build) ==
    [frames |-> [i \in 0..(FrameSlots - 1) |-> NoFrame], frameCount |-> 0,
     stack |-> [i \in 0..(StackSlots - 1) |-> NIL_VAL], stackTop |-> 0,
     globals |-> <<>>, heap |-> <<>>, openUpvalues |-> 0,
     permissions |-> initPermissions, handlers |-> <<>>, hasError |-> FALSE,
     currentError |-> NIL_VAL, baseFrameCount |-> 0, modules |-> <<>>,
     objects |-> <<>>, marked |-> {}, grayStack |-> <<>>, strings |-> {},
     stress |-> build, untilGC |-> 0, collected |-> <<>>, compiling |-> <<>>,
     globalIC |-> <<>>, globalsTable |-> initTable,
     ip |-> [chunk |-> 0, off |-> 0], pc |-> "idle", cstack |-> <<>>,
     result |-> "none", out |-> <<>>, err |-> <<>>, ext |-> <<>>,
     pushes |-> 0, fired |-> <<>>]

GcInit ==
    /\ verb = "run"
    /\ runs = 0
    /\ script = astNewProgram(<<>>)
    /\ exitCode = -1
    /\ arg = <<>>
    /\ ret = <<>>
    /\ stress \in BOOLEAN
    /\ steps = 0
    /\ Holds(defineNative(gcNewVM(stress), "print", TRUE))

\* The VM at the start of a step in which the allocation number distance
\* takes bytesAllocated over nextGC (none when 0); the history is of that
\* step only.
Step(distance) == [VM EXCEPT !.collected = <<>>, !.untilGC = distance]

\* The allocations of a step that can be the one to cross the threshold.
Distances == IF stress THEN {0} ELSE 0..GcDistance

\* The step is over: the threshold is far if it was not crossed.
Settle(m) == Install([m EXCEPT !.untilGC = 0])

Executing == pc = "run" /\ steps < MaxSteps

Running == Executing /\ stackTop < frame(VM).slots + GcSlots

\* The heap has room for n more objects.
Room(n) == Len(heap) + n <= MaxObjects

GcInterpret ==
    /\ pc = "idle"
    /\ runs < 1
    /\ Room(6)
    /\ \E source \in GcSources, grow \in BOOLEAN, distance \in Distances :
          Settle(gcInterpret(Step(distance), source, grow))
    /\ runs' = runs + 1
    /\ UNCHANGED <<verb, script, exitCode, arg, ret, stress, steps>>

GcConstant ==
    /\ Running
    /\ \E k \in ConstantsOf(VM, "string") : Settle(gcConstant(Step(0), k))
    /\ steps' = steps + 1
    /\ UNCHANGED <<verb, runs, script, exitCode, arg, ret, stress>>

GcPop ==
    /\ Executing
    /\ Locals(VM) # {}
    /\ Settle(pop(Step(0)))
    /\ steps' = steps + 1
    /\ UNCHANGED <<verb, runs, script, exitCode, arg, ret, stress>>

GcConcatenate ==
    /\ Executing
    /\ Room(1)
    /\ Cardinality(Locals(VM)) >= 2
    /\ IS_OBJ_KIND(VM, peek(VM, 0), "string")
    /\ IS_OBJ_KIND(VM, peek(VM, 1), "string")
    /\ Len(heap[peek(VM, 0).id].chars) + Len(heap[peek(VM, 1).id].chars)
          <= MaxChars
    /\ \E grow \in BOOLEAN, distance \in Distances :
          Settle(gcConcatenate(Step(distance), grow))
    /\ steps' = steps + 1
    /\ UNCHANGED <<verb, runs, script, exitCode, arg, ret, stress>>

GcBuildList ==
    /\ Running
    /\ Room(1)
    /\ \E count \in 0..2, distance \in Distances :
          /\ Cardinality(Locals(VM)) >= count
          /\ Settle(gcBuildList(Step(distance), count))
    /\ steps' = steps + 1
    /\ UNCHANGED <<verb, runs, script, exitCode, arg, ret, stress>>

GcDefineGlobal ==
    /\ Executing
    /\ Locals(VM) # {}
    /\ \E k \in ConstantsOf(VM, "string"), grow \in BOOLEAN, distance \in Distances :
          Settle(gcDefineGlobal(Step(distance), k, grow))
    /\ steps' = steps + 1
    /\ UNCHANGED <<verb, runs, script, exitCode, arg, ret, stress>>

GcClosure ==
    /\ Running
    /\ Room(2)
    /\ \E k \in ConstantsOf(VM, "function"), slot \in Locals(VM),
          distance \in Distances :
          Settle(gcClosure(Step(distance), k, slot))
    /\ steps' = steps + 1
    /\ UNCHANGED <<verb, runs, script, exitCode, arg, ret, stress>>

GcImport ==
    /\ Running
    /\ Room(3)
    /\ \E k \in ConstantsOf(VM, "string"), grow \in BOOLEAN, distance \in Distances :
          Settle(gcImport(Step(distance), k, grow))
    /\ steps' = steps + 1
    /\ UNCHANGED <<verb, runs, script, exitCode, arg, ret, stress>>

GcCloseUpvalue ==
    /\ Executing
    /\ Locals(VM) # {}
    /\ Settle(gcCloseUpvalue(Step(0)))
    /\ steps' = steps + 1
    /\ UNCHANGED <<verb, runs, script, exitCode, arg, ret, stress>>

\* A native called without arguments raises an error and returns nil.
GcRaise ==
    /\ Running
    /\ Room(5)
    /\ \E grow \in BOOLEAN, distance \in Distances :
          Settle([push(gcRaiseError(Step(distance), "denied", "permission",
                                    grow),
                       NIL_VAL)
                      EXCEPT !.pc = IF @ = "undefined" THEN @ ELSE "check"])
    /\ steps' = steps + 1
    /\ UNCHANGED <<verb, runs, script, exitCode, arg, ret, stress>>

GcCheckError ==
    /\ pc = "check"
    /\ \E grow \in BOOLEAN, distance \in Distances :
          Settle(gcCheckError(Step(distance), grow))
    /\ steps' = steps + 1
    /\ UNCHANGED <<verb, runs, script, exitCode, arg, ret, stress>>

GcReturn ==
    /\ Executing
    /\ Locals(VM) = {}
    /\ Settle(gcReturn(Step(0)))
    /\ steps' = steps + 1
    /\ UNCHANGED <<verb, runs, script, exitCode, arg, ret, stress>>

\* A freed object has been read or written: the process crashes, or it
\* goes on in a state about which nothing is known.
GcUndefined ==
    /\ pc = "undefined"
    /\ pc' \in {"crashed", "unknown"}
    /\ UNCHANGED <<frames, frameCount, stack, stackTop, globals, heap,
                   openUpvalues, permissions, handlers, hasError, currentError,
                   baseFrameCount, modules, objects, marked, grayStack, strings,
                   stress, untilGC, collected, compiling, globalIC, globalsTable,
                   steps, ip, cstack,
                   verb, runs, script, result, exitCode, out, err, ext, pushes,
                   fired, arg, ret>>

GcNext ==
    \/ GcInterpret \/ GcConstant \/ GcPop \/ GcConcatenate \/ GcBuildList
    \/ GcDefineGlobal \/ GcClosure \/ GcCloseUpvalue \/ GcImport
    \/ GcRaise \/ GcCheckError \/ GcReturn \/ GcUndefined

SpecGC == GcInit /\ [][GcNext]_vars

\* All objects the collector was asked to keep are unmarked between steps.
GcTypeOK ==
    /\ grayStack = <<>>
    /\ RangeOf(objects) \subseteq 1..Len(heap)


(***************************************************************************)
(* What the roots reach, as sets: written from the layout of the objects   *)
(* (object.h), not from the collector.                                     *)
(***************************************************************************)
\* The objects the values of a sequence or function refer to.
Referred(values) ==
    {values[i].id : i \in {j \in DOMAIN values : IS_HEAP(values[j])}}

\* The objects an object of heap h refers to.
References(h, object) ==
    LET o == h[object]
    IN  CASE o.kind = "closure" -> {o.function} \cup (RangeOf(o.upvalues) \ {0})
          [] o.kind = "function" -> ({o.name} \ {0}) \cup Referred(o.constants)
          [] o.kind = "upvalue" -> Referred(<<o.closed>>)
          [] o.kind = "list" -> Referred(o.items)
          [] o.kind = "map" -> DOMAIN o.table \cup Referred(o.table)
          [] OTHER -> {}

RECURSIVE OpenList(_, _)
OpenList(h, upvalue) ==
    IF upvalue = 0 THEN {} ELSE {upvalue} \cup OpenList(h, h[upvalue].next)

\* The objects the roots of r refer to directly.
RootSet(r) ==
    Referred([i \in 0..(r.stackTop - 1) |-> r.stack[i]])
    \cup {r.frames[i].closure : i \in 0..(r.frameCount - 1)}
    \cup OpenList(r.heap, r.openUpvalues)
    \cup DOMAIN r.globals \cup Referred(r.globals)
    \cup DOMAIN r.modules \cup Referred(r.modules)

RECURSIVE ReachableFrom(_, _)
ReachableFrom(h, S) ==
    LET T == S \cup UNION {References(h, o) : o \in S}
    IN  IF T = S THEN S ELSE ReachableFrom(h, T)

Reachable(r) == ReachableFrom(r.heap, RootSet(r))

\* The objects a collection freed.
Freed(c) == RangeOf(c.before.objects) \ RangeOf(c.objects)

Collections == {collected[i] : i \in 1..Len(collected)}

\* C12: a collection frees no object that the value stack, the closures of
\* the active frames, the open upvalues, the globals or the module cache
\* reach through object references, and it frees every object that they do
\* not reach: the objects left on the VM's list are the reachable ones.
C12_CollectionFreesTheUnreachable ==
    \A c \in Collections :
        /\ Reachable(c.before) \subseteq RangeOf(c.before.objects)
        /\ RangeOf(c.objects) = Reachable(c.before)

\* A collection has freed a list and kept a string that only the constants
\* of the running function refer to, two references away from the frame.
C12_Witness ==
    \E c \in Collections :
        /\ \E o \in Freed(c) : c.before.heap[o].kind = "list"
        /\ \E o \in RangeOf(c.objects) \ RootSet(c.before) :
              /\ c.before.heap[o].kind = "string"
              /\ o \notin DOMAIN c.before.globals
              /\ c.before.frameCount = 1


\* C13: a collection that runs while functions are being compiled, for the
\* script or for a module that an Import instruction loads, frees none of
\* the functions under compilation and no constant already in their
\* constant pools.
C13_CompilationSurvivesCollection ==
    \A c \in Collections :
        \A f \in RangeOf(c.before.compiling) :
            /\ f \in RangeOf(c.objects)
            /\ Referred(c.before.heap[f].constants) \subseteq RangeOf(c.objects)


\* No freed object has been used.
Defined == pc \notin {"undefined", "crashed", "unknown"}

\* The string objects on the VM's list.
LiveStrings == {o \in RangeOf(objects) : heap[o].kind = "string"}

\* C14: after any string constructions and collections, no two live
\* strings have equal bytes, every entry of the intern table is a live
\* string, and constructing a string with the bytes of a live string gives
\* that object and allocates nothing.
C14_StringsInterned ==
    Defined =>
        /\ \A a, b \in LiveStrings : heap[a].chars = heap[b].chars => a = b
        /\ strings \subseteq LiveStrings
        /\ \A a \in LiveStrings :
              /\ copyString(VM, heap[a].chars, TRUE) = VM
              /\ takeString(VM, heap[a].chars, TRUE) = VM
              /\ tableFindString(VM, heap[a].chars) = a

\* A collection has freed an interned string and left others, while the
\* script goes on.
C14_Witness ==
    /\ pc = "run"
    /\ Cardinality(LiveStrings) >= 2
    /\ \E c \in Collections :
          \E o \in Freed(c) :
              o \in c.before.strings /\ c.before.heap[o].chars = "ab"


\* The VM is about to use an object it holds in a C variable or in a table,
\* which a collection of the same step has freed.
UsesFreed == pc = "undefined" /\ collected # <<>>

\* C15: with a collection at any allocation that an instruction or a native
\* performs, every object that is used after the allocation was reachable
\* from the roots at it, so that the run goes on as it does without
\* collections: no step of the running script uses an object that a
\* collection has freed, or leaves one where the roots reach it.
C15_CollectionsAreUnobservable ==
    /\ ~(UsesFreed /\ frameCount > 0 /\ compiling = <<>>)
    /\ pc \in {"run", "check"} => Reachable(Roots(VM)) \subseteq RangeOf(objects)

\* C16: when collectGarbage has returned, the gray stack is empty and no
\* object on the VM's list is marked.
C16_NoMarksAfterCollection ==
    /\ grayStack = <<>>
    /\ marked \cap RangeOf(objects) = {}

\* A collection has marked and kept objects and freed others, and has
\* returned.
C16_Witness ==
    /\ Defined
    /\ \E c \in Collections : Freed(c) # {} /\ Len(c.objects) >= 4


\* A run of the script ends with the success result: run returns
\* INTERPRET_OK to interpret from the script's last RETURN or from a handler
\* that ended it.
EndsWithSuccess ==
    /\ pc \in {"dispatch", "check"}
    /\ pc' = "idle"
    /\ result' = "INTERPRET_OK"

\* C17: when interpret returns the success result the value stack is empty,
\* no frame is left, no upvalue is open and the gray stack is empty,
\* whatever the script did.
C17_SuccessLeavesNothingBehind ==
    [][EndsWithSuccess =>
          /\ stackTop' = 0
          /\ frameCount' = 0
          /\ openUpvalues' = 0
          /\ grayStack' = <<>>]_vars

\* The messages of the faults that run reports through runtimeError and
\* that the claim names.
InternalFaults ==
    {"Division by zero.", "Operands must be numbers.",
     "Operands must be two numbers or two strings.",
     "Too many nested error handlers.", "Stack overflow."}

\* The step reports an internal fault.
Faults ==
    /\ Len(err') > Len(err)
    /\ \E i \in (Len(err) + 1)..Len(err') : err'[i] \in InternalFaults

\* C20: an internal fault (division by zero, arithmetic on operands of the
\* wrong type, the handler limit, the frame limit) ends the run with the
\* runtime-error result although a handler is registered, and no handler
\* fires for it.
C20_InternalFaultsEndRun ==
    [][(Faults /\ handlers # <<>>) =>
          /\ pc' = "idle"
          /\ result' = "INTERPRET_RUNTIME_ERROR"
          /\ fired' = fired]_vars

\* The step is an IMPORT instruction of the running script or module.
Importing ==
    /\ Dispatching
    /\ Instr = OP_IMPORT
    /\ hasString(VM, 1)
    /\ hasString(VM, 2)

\* The path operand of the IMPORT instruction and the name it binds.
ImportPath == READ_CONSTANT(VM, 1).s
ImportName == READ_CONSTANT(VM, 2).s

\* The cached modules whose file is the file that the IMPORT resolves to.
ImportedBefore ==
    {p \in DOMAIN modules :
        resolvePath(scriptPath(verb), Chars[p])
            = resolvePath(scriptPath(verb), Chars[ImportPath])}

\* C19: an IMPORT that resolves to the file of a module imported before
\* enters no run() for the module (nothing is compiled or executed, the
\* cache is left alone) and binds the name to the export map of the first
\* import.
C19_ModuleRunsOnce ==
    [][(Importing /\ ImportedBefore # {}) =>
          /\ cstack' = cstack
          /\ frameCount' = frameCount
          /\ modules' = modules
          /\ ImportName \in DOMAIN globals'
          /\ \A p \in ImportedBefore : globals'[ImportName] = modules[p]]_vars

\* The step in which IMPORT ends for a module that was not in the cache:
\* run() has returned INTERPRET_OK for the module, the globals are
\* diffed against the snapshot and the export map is cached.
ImportCompletes ==
    /\ cstack # <<>>
    /\ "path" \in DOMAIN cstack[Len(cstack)]
    /\ Len(cstack') < Len(cstack)
    /\ cstack[Len(cstack)].path \in DOMAIN modules' \ DOMAIN modules

\* The name that a GET_GLOBAL instruction reads.
GlobalName == READ_CONSTANT(VM, 1).s

\* The names in the export maps of the cached modules.
Exported == UNION {DOMAIN heap[modules[p].id].table : p \in DOMAIN modules}

\* The step is a GET_GLOBAL of an exported name that is not a global.
ReadsExported ==
    /\ Dispatching
    /\ Instr = OP_GET_GLOBAL
    /\ hasString(VM, 1)
    /\ GlobalName \in Exported \ DOMAIN globals

\* The step reports the name of GET_GLOBAL as an undefined variable.
ReportsUndefined ==
    /\ Len(err') > Len(err)
    /\ \E i \in (Len(err) + 1)..Len(err') :
          err'[i] = "Undefined variable '" \o GlobalName \o "'."

\* C18: when the IMPORT of an uncached module completes, the globals that
\* the module added are the keys of its export map, with the values they
\* had when the module returned, and the globals are those of before the
\* import plus the binding name; a later GET_GLOBAL of an exported name
\* fails with the undefined-variable error.
C18_ExportsLeaveGlobals ==
    [][/\ ImportCompletes =>
            LET ctx == cstack[Len(cstack)]
                added == DOMAIN globals \ ctx.existingGlobals
                exports == heap'[modules'[ctx.path].id].table
            IN  /\ DOMAIN exports = added
                /\ \A k \in added : exports[k] = globals[k]
                /\ DOMAIN globals' = ctx.existingGlobals \cup {ctx.modName}
       /\ ReadsExported => ReportsUndefined]_vars

\* The step is a CALL instruction with its callee and arguments on the
\* stack.
ArgCount == READ_BYTE(VM, 1)
Callee == peek(VM, ArgCount)
Calling ==
    /\ Dispatching
    /\ Instr = OP_CALL
    /\ stackTop >= ArgCount + 1

\* callValue has returned from a native without a raised error.
NativeReturns ==
    /\ Calling
    /\ IS_NATIVE(Callee)
    /\ pc' = "check"
    /\ ~hasError'

\* callValue has entered a closure.
ClosureEntered ==
    /\ Calling
    /\ IS_CLOSURE(VM, Callee)
    /\ pc' = "check"

\* map_fn, suspended in vmCallFunction, returns to callValue without a
\* raised error.
MapFnReturns ==
    /\ cstack # <<>>
    /\ "list" \in DOMAIN cstack[Len(cstack)]
    /\ Len(cstack') < Len(cstack)
    /\ pc' = "check"
    /\ ~hasError'

\* The step is the RETURN of a closure that a CALL instruction entered.
ClosureReturns ==
    /\ Dispatching
    /\ Instr = OP_RETURN
    /\ stackTop >= 1
    /\ frameCount > 1
    /\ ~(baseFrameCount > 0 /\ frameCount - 1 = baseFrameCount)

\* The slots below slot n are as they were.
StackKeptBelow(n) == \A i \in 0..(n - 1) : stack'[i] = stack[i]

\* C30: a CALL that completes without a raised error leaves one result in
\* place of the callee and its arguments.  A native returns with the stack
\* top lowered by argCount, the slots below the callee and the frames as
\* they were and ip behind the operand.  A closure is entered on the slot
\* of the callee, no step changes the slots base of a frame in progress,
\* and its RETURN stores the result in that slot, makes it the top, leaves
\* the slots below it and the caller's frames alone and resumes at the ip
\* the caller stored.
C30_CallLeavesOneResult ==
    [][/\ NativeReturns =>
            /\ stackTop' = stackTop - ArgCount
            /\ StackKeptBelow(stackTop - ArgCount - 1)
            /\ frameCount' = frameCount
            /\ ip' = [ip EXCEPT !.off = @ + 2]
            /\ frames' = [frames EXCEPT ![frameCount - 1].ip = ip']
       /\ MapFnReturns =>
            /\ stackTop' = cstack[Len(cstack)].args
            /\ frameCount' = baseFrameCount
       /\ ClosureEntered =>
            /\ frameCount' = frameCount + 1
            /\ frames'[frameCount].slots = stackTop - ArgCount - 1
            /\ stackTop' = stackTop
            /\ stack' = stack
       /\ \A k \in 0..(frameCount - 1) :
            k < frameCount' => frames'[k].slots = frames[k].slots
       /\ ClosureReturns =>
            /\ stackTop' = frame(VM).slots + 1
            /\ stack'[frame(VM).slots] = peek(VM, 0)
            /\ StackKeptBelow(frame(VM).slots)
            /\ frameCount' = frameCount - 1
            /\ \A k \in 0..(frameCount - 2) : frames'[k] = frames[k]
            /\ ip' = frames[frameCount - 2].ip
            /\ pc' = "dispatch"]_vars

\* print has returned from a call with two arguments, each the result of
\* a closure called with two arguments, and the script has ended.
C30_Witness ==
    /\ script = CallWithArgs
    /\ pc = "idle"
    /\ result = "INTERPRET_OK"
    /\ out = << <<NUMBER_VAL(2), NUMBER_VAL(4)>> >>

\* No handler record refers to a frame that has been popped.
HandlersInFrames ==
    \A i \in 1..Len(handlers) : handlers[i].frameCount <= frameCount

\* C28: the handler stack holds the records of the protected regions in
\* progress and no others: a record that fires is removed, and no record
\* outlives the frame that pushed it (its frame count never exceeds the
\* current one; none is left when no script is running).
C28_HandlersMatchRegions ==
    /\ [](pc \in {"idle", "dispatch", "check"} => HandlersInFrames)
    /\ [][HandlerFires => handlers' = SubSeq(handlers, 1, Len(handlers) - 1)]_vars

\* The places of the function being executed where the protected
\* statements of an `on failure` and its handler body meet, each with the
\* number of locals the compiler has declared there.
JoinLocals == IF frameCount >= 1 /\ ip.chunk \in 1..Len(heap)
                 /\ heap[ip.chunk].kind = "closure"
              THEN heap[ip.chunk].function.joinLocals
              ELSE <<>>

\* C29: at the instruction after an `on failure` statement list the
\* values above the frame base are as many as the locals the compiler has
\* declared there, whether the protected statements completed or the
\* handler body ran.
C29_StackDepthAfterOnFailure ==
    \A k \in 1..Len(JoinLocals) :
        (pc = "dispatch" /\ ip.off = JoinLocals[k].join) =>
            stackTop - frames[frameCount - 1].slots = JoinLocals[k].locals

(***************************************************************************)
(* parallel_exec with its threads (parallel.c).  pc is where the VM thread *)
(* is in parallelExec; arg[1] holds the commands of the argument list, the *)
(* malloc'ed arrays tasks and threads and the loop index i; ret is what    *)
(* parallelExec returns.  A thread is "running" from pthread_create until  *)
(* execTaskRunner returns, and "joined" once pthread_join has returned.    *)
(***************************************************************************)
MaxCommands == 3
Commands == {"a", "/a"}
\* The most `allow exec` statements run before the call.
MaxGrants == 1

\* What malloc returns holds no value yet.
Uninitialized == [uninitialized |-> TRUE]

\* How a subprocess may end: for the model it writes its command to
\* stdout, with or without a newline, and exits with 0 or 1.
Outcomes == {[exitCode |-> 0, newline |-> TRUE], [exitCode |-> 1, newline |-> FALSE]}

processExec(command, outcome) ==
    [exitCode |-> outcome.exitCode,
     stdoutData |-> <<command>> \o (IF outcome.newline THEN <<"\n">> ELSE <<>>),
     stderrData |-> <<>>]

runnerOnFirstTask(tasks, t, outcome) ==
    [tasks EXCEPT ![1].result = processExec(tasks[t].command, outcome)]

\* Thread t runs: `task->result = processExec(task->command)`.
execTaskRunner(tasks, t, outcome) ==
    [tasks EXCEPT ![t].result = processExec(tasks[t].command, outcome)]

joinWithoutWaiting(threads, i) == threads[i] \in {"running", "returned"}

\* pthread_join(threads[i]) returns once the thread has returned.
pthread_join(threads, i) == threads[i] = "returned"

\* The loop that builds the result maps, from task i on; results is the
\* list.  (Both are on the stack while the loop allocates.)
RECURSIVE parallelResults(_, _, _, _)
parallelResults(m, tasks, results, i) ==
    IF i > Len(tasks) THEN m
    ELSE LET r == tasks[i].result
             stdoutLength == Len(r.stdoutData)
             outLen == IF stdoutLength > 0 /\ r.stdoutData[stdoutLength] = "\n"
                       THEN stdoutLength - 1 ELSE stdoutLength
             output == tableSet(<<>>, "output",
                                STRING_VAL(Cat(SubSeq(r.stdoutData, 1, outLen))))
             exit == tableSet(output, "exitCode", NUMBER_VAL(r.exitCode))
             table == tableSet(exit, "stderr", STRING_VAL(Cat(r.stderrData)))
             map == Len(m.heap) + 1
             m1 == allocateObject(m, [kind |-> "map", table |-> table])
         IN  parallelResults([m1 EXCEPT !.heap[results].items = Append(@, OBJ_VAL(map))],
                             tasks, results, i + 1)

vmState == <<frames, frameCount, stack, stackTop, globals, heap, openUpvalues,
             handlers, hasError, currentError, baseFrameCount, modules, objects,
             marked, grayStack, strings, untilGC, collected, compiling,
             globalIC, globalsTable, ip, cstack, result, out, pushes, fired,
             permissions>>

ParInit ==
    /\ verb \in {"run", "run --allow-all"}
    /\ initVM(verb)
    /\ pc = "validate"
    /\ runs = 0
    /\ script = astNewProgram(<<>>)
    /\ result = "none"
    /\ exitCode = -1
    /\ stress = FALSE
    /\ steps = 0
    /\ \E n \in 0..MaxCommands : \E commands \in [1..n -> Commands] :
          arg = <<[commands |-> commands, tasks |-> <<>>, threads |-> <<>>,
                   i |-> 1]>>
    /\ ret = <<>>

ParRest == <<verb, runs, script, exitCode, stress, steps>>

\* An `allow exec "target"` statement of the script before the call (ALLOW).
ParAllow ==
    /\ pc = "validate"
    /\ Len(permissions.permissions) < MaxGrants
    /\ \E target \in Commands :
          permissions' = addPermission(permissions, PERM_EXEC, target)
    /\ UNCHANGED <<frames, frameCount, stack, stackTop, globals, heap, openUpvalues,
                   handlers, hasError, currentError, baseFrameCount, modules,
                   objects, marked, grayStack, strings, untilGC, collected,
                   compiling, globalIC, globalsTable, ip, cstack, result, out,
                   pushes, fired, pc, arg, ret, err, ext, ParRest>>

\* parallelExec up to the first pthread_create: the empty list, the
\* permission of every command, the two arrays.
ParValidate ==
    /\ pc = "validate"
    /\ LET commands == arg[1].commands
           items == [i \in 1..Len(commands) |-> STRING_VAL(commands[i])]
           v == parallelValidate(VM, items, 1)
       IN  IF Len(commands) <= 0
           THEN /\ Install([allocateObject(VM, newList) EXCEPT !.pc = "returned"])
                /\ ret' = <<OBJ_VAL(Len(heap) + 1)>>
                /\ arg' = arg
           ELSE IF v.answer # "ok"
           THEN /\ Install([v.m EXCEPT !.pc = "returned"])
                /\ ret' = <<NIL_VAL>>
                /\ arg' = arg
           ELSE /\ pc' = "spawn"
                /\ arg' = <<[arg[1] EXCEPT
                               !.tasks = [i \in 1..Len(commands) |->
                                            [command |-> Uninitialized,
                                             result |-> Uninitialized]],
                               !.threads = [i \in 1..Len(commands) |-> "uninitialized"]]>>
                /\ UNCHANGED <<vmState, err, ext, ret>>
    /\ UNCHANGED ParRest

\* One turn of the loop with pthread_create.
ParSpawn ==
    /\ pc = "spawn"
    /\ LET i == arg[1].i
       IN  /\ arg' = <<[arg[1] EXCEPT
                          !.tasks[i].command = arg[1].commands[i],
                          !.threads[i] = "running",
                          !.i = IF i = Len(arg[1].commands) THEN 1 ELSE i + 1]>>
           /\ pc' = IF i = Len(arg[1].commands) THEN "join" ELSE "spawn"
    /\ UNCHANGED <<vmState, err, ext, ret, ParRest>>

\* Thread t: execTaskRunner from start to return.
ParRun ==
    /\ pc \in {"spawn", "join", "build", "returned"}
    /\ \E t \in 1..Len(arg[1].threads), outcome \in Outcomes :
          /\ arg[1].threads[t] = "running"
          /\ arg' = <<[arg[1] EXCEPT
                         !.tasks = execTaskRunner(@, t, outcome),
                         !.threads[t] = "returned"]>>
          /\ ext' = Append(ext, [op |-> "processExec",
                                 target |-> arg[1].tasks[t].command])
    /\ UNCHANGED <<vmState, err, pc, ret, ParRest>>

\* One turn of the loop with pthread_join.
ParJoin ==
    /\ pc = "join"
    /\ LET i == arg[1].i
       IN  /\ pthread_join(arg[1].threads, i)
           /\ arg' = <<[arg[1] EXCEPT
                          !.threads[i] = "joined",
                          !.i = IF i = Len(arg[1].commands) THEN 1 ELSE i + 1]>>
           /\ pc' = IF i = Len(arg[1].commands) THEN "build" ELSE "join"
    /\ UNCHANGED <<vmState, err, ext, ret, ParRest>>

\* The rest of parallelExec: the list, one map per task, the return.  To
\* read a result no thread has written is undefined.
ParBuild ==
    /\ pc = "build"
    /\ LET results == Len(heap) + 1
       IN  IF \E i \in 1..Len(arg[1].tasks) : arg[1].tasks[i].result = Uninitialized
           THEN Install(undefined(VM)) /\ ret' = ret
           ELSE /\ Install([parallelResults(allocateObject(VM, newList),
                                            arg[1].tasks, results, 1)
                               EXCEPT !.pc = "returned"])
                /\ ret' = <<OBJ_VAL(results)>>
    /\ UNCHANGED <<arg, ParRest>>

ParNext == ParAllow \/ ParValidate \/ ParSpawn \/ ParRun \/ ParJoin \/ ParBuild

SpecParallel == ParInit /\ [][ParNext]_vars

(***************************************************************************)
(* The emitters of the compiler on their own.  The input is the list of    *)
(* calls the compile functions make for one script, in order; each step    *)
(* makes the next call on the compiler chain.  arg[1] holds the chain, the *)
(* calls still to make, the jump awaiting its patch and the loop start;    *)
(* ret is the history of what was emitted.                                 *)
(***************************************************************************)
Code1(n) == [op |-> "code", count |-> n]
Jump1(instruction) == [op |-> "jump", instruction |-> instruction]
Constant1(n) == [op |-> "constant", value |-> NUMBER_VAL(n)]
Local1(n) == [op |-> "local", name |-> n]

\* The sizes of the code jumped over, around the largest 16-bit offset.
JumpSizes == {0, 2, UINT16_MAX - 1, UINT16_MAX, UINT16_MAX + 1}
\* A loop's offset also spans OP_LOOP and its operand.
LoopSizes == {0, 2, UINT16_MAX - 4, UINT16_MAX - 3, UINT16_MAX - 2}
\* One constant, and one local, more than an operand byte can index.
MaxConstants == UINT8_COUNT + 1
MaxLocals == UINT8_COUNT

Times(n, item) == [i \in 1..n |-> item]

JumpInputs ==
    { <<Code1(before), Jump1(instruction), Code1(size), [op |-> "patch"]>> :
        before \in {0, 1}, size \in JumpSizes,
        instruction \in {OP_JUMP, OP_JUMP_IF_FALSE, OP_PUSH_HANDLER} }

LoopInputs ==
    { <<Code1(before), [op |-> "mark"], Code1(size), [op |-> "loop"]>> :
        before \in {0, 1}, size \in LoopSizes }

ManyConstants == [i \in 1..MaxConstants |-> Constant1(i - 1)]

ConstantInputs ==
    { ManyConstants,
      <<[op |-> "function"]>> \o ManyConstants \o <<[op |-> "end"]>>,
      <<Constant1(0), Constant1(1), Constant1(0), Constant1(1)>> }

LocalInputs ==
    { <<[op |-> "function"]>> \o [i \in 1..MaxLocals |-> Local1(i)]
          \o <<[op |-> "end"]>> }

EmitInputs == JumpInputs \cup LoopInputs \cup ConstantInputs \cup LocalInputs

EmitInit ==
    /\ verb = "run"
    /\ initVM(verb)
    /\ pc = "emit"
    /\ runs = 0
    /\ script = astNewProgram(<<>>)
    /\ result = "none"
    /\ exitCode = -1
    /\ stress = FALSE
    /\ steps = 0
    /\ \E input \in EmitInputs :
          arg = <<[cs |-> initCompiler(<<>>, "TYPE_SCRIPT"), todo |-> input,
                   site |-> -1, loopStart |-> -1]>>
    /\ ret = <<>>

Emitting(op) == pc = "emit" /\ arg[1].todo # <<>> /\ arg[1].todo[1].op = op

EmitItem == arg[1].todo[1]

\* The next call has been made and has left the chain cs.
Emitted(cs) == [arg[1] EXCEPT !.cs = cs, !.todo = Tail(@)]

EmitRest == <<machine, permissions, verb, runs, script, exitCode>>

\* emitByte, count times.
EmitCode ==
    /\ Emitting("code")
    /\ arg' = <<Emitted([arg[1].cs EXCEPT ![Len(arg[1].cs)].function.code =
                            @ \o Times(EmitItem.count, OP_NIL)])>>
    /\ UNCHANGED <<EmitRest, ret>>

EmitJump ==
    /\ Emitting("jump")
    /\ LET jump == emitJump(arg[1].cs, EmitItem.instruction)
       IN  arg' = <<[Emitted(jump.cs) EXCEPT !.site = jump.offset]>>
    /\ UNCHANGED <<EmitRest, ret>>

PatchJump ==
    /\ Emitting("patch")
    /\ arg' = <<Emitted(patchJump(arg[1].cs, arg[1].site))>>
    /\ ret' = Append(ret, [op |-> "jump", jumpSite |-> arg[1].site,
                           target |-> Len(currentChunk(arg[1].cs).code)])
    /\ UNCHANGED EmitRest

\* `int loopStart = currentChunk(compiler)->count`
MarkLoop ==
    /\ Emitting("mark")
    /\ arg' = <<[Emitted(arg[1].cs)
                    EXCEPT !.loopStart = Len(currentChunk(arg[1].cs).code)]>>
    /\ UNCHANGED <<EmitRest, ret>>

EmitLoop ==
    /\ Emitting("loop")
    /\ arg' = <<Emitted(emitLoop(arg[1].cs, arg[1].loopStart))>>
    /\ ret' = Append(ret, [op |-> "loop",
                           jumpSite |-> Len(currentChunk(arg[1].cs).code) + 1,
                           target |-> arg[1].loopStart])
    /\ UNCHANGED EmitRest

\* emitConstant; the history keeps the index addConstant gave the value
\* and the operand that was emitted for it.
EmitConstant ==
    /\ Emitting("constant")
    /\ LET cs == emitConstant(arg[1].cs, EmitItem.value)
           code == currentChunk(cs).code
       IN  /\ arg' = <<Emitted(cs)>>
           /\ ret' = Append(ret,
                        [op |-> "constant", compiler |-> Len(cs),
                         index |-> addConstant(currentChunk(arg[1].cs).constants,
                                               EmitItem.value).index,
                         operand |-> code[Len(code)]])
    /\ UNCHANGED EmitRest

AddLocal ==
    /\ Emitting("local")
    /\ arg' = <<Emitted(addLocal(arg[1].cs, EmitItem.name))>>
    /\ UNCHANGED <<EmitRest, ret>>

\* compileFunction up to the function's body, and from the end of the body.
BeginFunction ==
    /\ Emitting("function")
    /\ arg' = <<Emitted(beginScope(initCompiler(arg[1].cs, "TYPE_FUNCTION")))>>
    /\ UNCHANGED <<EmitRest, ret>>

EndFunction ==
    /\ Emitting("end")
    /\ arg' = <<Emitted(emitClosure(emitReturn(arg[1].cs)))>>
    /\ UNCHANGED <<EmitRest, ret>>

\* The end of compile(): whether it returns the function or NULL.
EndCompile ==
    /\ pc = "emit"
    /\ arg[1].todo = <<>>
    /\ pc' = "emitted"
    /\ arg' = <<[arg[1] EXCEPT !.cs = emitReturn(@)]>>
    /\ ret' = Append(ret, [op |-> "compile", ok |-> ~arg[1].cs[1].hadError])
    /\ UNCHANGED <<frames, frameCount, stack, stackTop, globals, heap,
                   openUpvalues, handlers, hasError, currentError,
                   baseFrameCount, modules, objects, marked, grayStack, strings,
                   stress, untilGC, collected, compiling, globalIC,
                   globalsTable, steps, ip, cstack, result, out, err, ext,
                   pushes, fired, permissions, verb, runs, script, exitCode>>

EmitNext ==
    \/ EmitCode \/ EmitJump \/ PatchJump \/ MarkLoop \/ EmitLoop
    \/ EmitConstant \/ AddLocal \/ BeginFunction \/ EndFunction \/ EndCompile

SpecEmit == EmitInit /\ [][EmitNext]_vars

(***************************************************************************)
(* dataformat.c: parse_json and to_json.  A text is a sequence of bytes,   *)
(* each a one-character string; the control bytes have the names below.    *)
(* A parsed value is nil, a boolean, a number, a string (its bytes), a     *)
(* list (its items) or a map (its table, the entry array included).        *)
(***************************************************************************)
NUL == "<NUL>"
BS == "<BS>"
FF == "<FF>"
LF == "<LF>"
CR == "<CR>"
TAB == "<TAB>"

DigitChars == <<"0", "1", "2", "3", "4", "5", "6", "7", "8", "9">>

isdigit(c) == \E d \in 1..10 : DigitChars[d] = c

DigitValue(c) == (CHOOSE d \in 1..10 : DigitChars[d] = c) - 1

\* The byte values of the bytes that occur in the keys of the modelled maps.
ByteOf(c) ==
    CASE c = "a" -> 97 [] c = "b" -> 98 [] c = "c" -> 99 [] c = "d" -> 100
      [] c = "k" -> 107 [] c = "x" -> 120 [] c = "y" -> 121 [] OTHER -> 63

RECURSIVE xorBits(_, _, _)
xorBits(a, b, bits) ==
    IF bits = 0 THEN 0
    ELSE ((a + b) % 2) + 2 * xorBits(a \div 2, b \div 2, bits - 1)

\* object.c hashString (FNV-1a), its low 16 bits: the bits a table of up to
\* 65536 entries takes the index from.  The low 16 bits of the offset basis
\* 2166136261 are 40389, those of the prime 16777619 are 403.
RECURSIVE hashFrom(_, _, _)
hashFrom(hash, key, i) ==
    IF i > Len(key) THEN hash
    ELSE hashFrom((((hash \div 256) * 256
                    + xorBits(hash % 256, ByteOf(key[i]), 8)) * 403) % 65536,
                  key, i + 1)

hashString(key) == hashFrom(40389, key, 1)

\* A double as the decimal it stands for: 0.d1 d2 ... dn times ten to the
\* power point, d1 and dn not 0; zero has no digits.  Exact for the texts of
\* up to fifteen significant digits, which a double tells apart.
DOUBLE_VAL(neg, digits, point) ==
    [t |-> "num", neg |-> neg, digits |-> digits, point |-> point]

RECURSIVE stripLeading(_, _)
stripLeading(digits, point) ==
    IF digits = <<>> THEN [digits |-> <<>>, point |-> 0]
    ELSE IF Head(digits) = 0 THEN stripLeading(Tail(digits), point - 1)
    ELSE [digits |-> digits, point |-> point]

RECURSIVE stripTrailing(_)
stripTrailing(digits) ==
    IF digits # <<>> /\ digits[Len(digits)] = 0
    THEN stripTrailing(SubSeq(digits, 1, Len(digits) - 1))
    ELSE digits

RECURSIVE decimalValue(_, _)
decimalValue(digits, i) ==
    IF i > Len(digits) THEN 0
    ELSE digits[i] + 10 * decimalValue(digits, i + 1)

\* The number a run of decimal digits stands for (an exponent: small).
digitsValue(digits) ==
    decimalValue([i \in 1..Len(digits) |-> digits[Len(digits) + 1 - i]], 1)

\* The double nearest to the decimal with these digits and this exponent.
decimal(neg, whole, fraction, exponent) ==
    LET d == stripLeading(whole \o fraction, Len(whole) + exponent)
    IN  DOUBLE_VAL(neg, stripTrailing(d.digits), d.point)

RECURSIVE lessEqDigits(_, _, _)
lessEqDigits(a, b, i) ==
    IF i > Len(b) THEN TRUE
    ELSE LET d == IF i <= Len(a) THEN a[i] ELSE 0
         IN  IF d < b[i] THEN TRUE
             ELSE IF d > b[i] THEN FALSE
             ELSE lessEqDigits(a, b, i + 1)

INT_MAX_DIGITS == <<2, 1, 4, 7, 4, 8, 3, 6, 4, 7>>
INT_MIN_DIGITS == <<2, 1, 4, 7, 4, 8, 3, 6, 4, 8>>

IntMax == DOUBLE_VAL(FALSE, INT_MAX_DIGITS, Len(INT_MAX_DIGITS))
IntMin == DOUBLE_VAL(TRUE, INT_MIN_DIGITS, Len(INT_MIN_DIGITS))

\* The integral part of num.
truncated(num) ==
    IF num.point <= 0 THEN DOUBLE_VAL(FALSE, <<>>, 0)
    ELSE IF Len(num.digits) <= num.point THEN num
    ELSE [num EXCEPT !.digits = stripTrailing(SubSeq(@, 1, num.point))]

\* The whole number num is the value of some int.
inIntRange(num) ==
    \/ num.point < Len(INT_MAX_DIGITS)
    \/ /\ num.point = Len(INT_MAX_DIGITS)
       /\ lessEqDigits(num.digits,
                       IF num.neg THEN INT_MIN_DIGITS ELSE INT_MAX_DIGITS, 1)

\* `(int)num`.  The conversion of a double whose integral part is no int is
\* undefined: the build yields the smallest int for it ("indefinite") or
\* the int nearest to it ("saturate").
Builds == {"indefinite", "saturate"}

castInt(num, build) ==
    LET whole == truncated(num)
    IN  IF inIntRange(whole)
        THEN [whole EXCEPT !.neg = @ /\ whole.digits # <<>>]
        ELSE CASE build = "indefinite" -> IntMin
               [] build = "saturate" -> IF num.neg THEN IntMin ELSE IntMax

\* `==` on doubles: the two zeros are equal.
doubleEqual(a, b) ==
    /\ a.digits = b.digits
    /\ a.point = b.point
    /\ (a.neg = b.neg \/ a.digits = <<>>)

\* `num >= -1e15 && num <= 1e15`
withinE15(num) ==
    num.point <= 15 \/ (num.point = 16 /\ num.digits = <<1>>)

digitText(digits) == [i \in 1..Len(digits) |-> DigitChars[digits[i] + 1]]

zeros(n) == [i \in 1..n |-> 0]

\* snprintf "%d" of an int.
formatInt(num) ==
    IF num.digits = <<>> THEN <<"0">>
    ELSE (IF num.neg THEN <<"-">> ELSE <<>>)
         \o digitText(num.digits \o zeros(num.point - Len(num.digits)))

RECURSIVE increment(_)
\* One more in the last place; the carry out of the first place is a new
\* first digit.
increment(digits) ==
    IF digits = <<>> THEN <<1>>
    ELSE IF digits[Len(digits)] < 9
    THEN [digits EXCEPT ![Len(digits)] = @ + 1]
    ELSE Append(increment(SubSeq(digits, 1, Len(digits) - 1)), 0)

\* The six significant digits "%g" keeps, rounded to nearest.
roundSix(num) ==
    IF Len(num.digits) <= 6 THEN num
    ELSE LET kept == SubSeq(num.digits, 1, 6)
             up == IF num.digits[7] >= 5 THEN increment(kept) ELSE kept
         IN  IF Len(up) > 6
             THEN [num EXCEPT !.digits = <<1>>, !.point = @ + 1]
             ELSE [num EXCEPT !.digits = stripTrailing(up)]

\* snprintf "%g": exponent style when the decimal exponent is under -4 or
\* not under the precision, 6; trailing zeros removed.
formatG(num) ==
    LET r == roundSix(num)
        X == r.point - 1
        sign == IF r.neg THEN <<"-">> ELSE <<>>
        abs == IF X < 0 THEN 0 - X ELSE X
        fractionOf(digits) == IF digits = <<>> THEN <<>>
                              ELSE <<".">> \o digitText(digits)
    IN  IF X < -4 \/ X >= 6
        THEN sign \o digitText(<<r.digits[1]>>) \o fractionOf(Tail(r.digits))
             \o <<"e", IF X < 0 THEN "-" ELSE "+">>
             \o digitText(IF abs < 10 THEN <<0, abs>>
                          ELSE <<abs \div 10, abs % 10>>)
        ELSE IF X >= 0
        THEN LET padded == r.digits \o zeros(r.point - Len(r.digits))
             IN  sign \o digitText(SubSeq(padded, 1, r.point))
                 \o fractionOf(SubSeq(padded, r.point + 1, Len(padded)))
        ELSE sign \o <<"0">> \o fractionOf(zeros(0 - r.point) \o r.digits)

(***************************************************************************)
(* The entry array of a map's table (table.c): open addressing with linear *)
(* probing from the key's hash, the array grown before an entry takes it   *)
(* over three quarters.                                                    *)
(***************************************************************************)
NoEntry == [used |-> FALSE]

emptyTable == [count |-> 0, capacity |-> 0, entries |-> <<>>]

RECURSIVE findEntry(_, _, _, _)
findEntry(entries, capacity, key, index) ==
    LET entry == entries[index + 1]
    IN  IF ~entry.used THEN index
        ELSE IF entry.key = key THEN index
        ELSE findEntry(entries, capacity, key, (index + 1) % capacity)

putEntry(entries, capacity, key, value) ==
    [entries EXCEPT ![findEntry(entries, capacity, key,
                                hashString(key) % capacity) + 1] =
                        [used |-> TRUE, key |-> key, value |-> value]]

RECURSIVE reinsert(_, _, _, _)
reinsert(old, i, entries, capacity) ==
    IF i > Len(old) THEN entries
    ELSE IF ~old[i].used THEN reinsert(old, i + 1, entries, capacity)
    ELSE reinsert(old, i + 1,
                  putEntry(entries, capacity, old[i].key, old[i].value),
                  capacity)

adjustCapacity(table, capacity) ==
    [table EXCEPT !.capacity = capacity,
                  !.entries = reinsert(table.entries, 1,
                                       [i \in 1..capacity |-> NoEntry],
                                       capacity)]

tableSetInArray(table, key, value) ==
    LET grown == IF tableGrows(table.count, table.capacity)
                 THEN adjustCapacity(table, GROW_CAPACITY(table.capacity))
                 ELSE table
        index == findEntry(grown.entries, grown.capacity, key,
                           hashString(key) % grown.capacity)
        isNewKey == ~grown.entries[index + 1].used
    IN  [grown EXCEPT !.count = IF isNewKey THEN @ + 1 ELSE @,
                      !.entries = putEntry(@, grown.capacity, key, value)]

LIST_VAL(items) == [t |-> "list", items |-> items]
MAP_VAL(table) == [t |-> "map", table |-> table]

(***************************************************************************)
(* The JSON parser.  pos counts from 0, as in the source.                  *)
(***************************************************************************)
initParser(json) ==
    [source |-> json, length |-> Len(json), pos |-> 0, hadError |-> FALSE,
     stderr |-> <<>>]

jsonError(p, message) ==
    IF p.hadError THEN p
    ELSE [p EXCEPT !.hadError = TRUE,
                   !.stderr = Append(@, [pos |-> p.pos, message |-> message])]

jsonPeek(p) == IF p.pos >= p.length THEN NUL ELSE p.source[p.pos + 1]

RECURSIVE jsonSkipWhitespace(_)
jsonSkipWhitespace(p) ==
    IF p.pos < p.length /\ p.source[p.pos + 1] \in {" ", TAB, CR, LF}
    THEN jsonSkipWhitespace([p EXCEPT !.pos = @ + 1])
    ELSE p

\* jsonMatch: whether it matches, and the parser after it.
jsonMatches(p, expected) == p.pos < p.length /\ p.source[p.pos + 1] = expected

jsonMatch(p, expected) ==
    IF jsonMatches(p, expected) THEN [p EXCEPT !.pos = @ + 1] ELSE p

\* jsonParseString: the position of the closing quote, or past the end.
RECURSIVE stringEnd(_, _)
stringEnd(p, pos) ==
    IF pos < p.length /\ p.source[pos + 1] # "\""
    THEN stringEnd(p, IF p.source[pos + 1] = "\\" THEN pos + 2 ELSE pos + 1)
    ELSE pos

RECURSIVE hasEscape(_, _, _)
hasEscape(p, pos, end) ==
    /\ pos < end
    /\ \/ p.source[pos + 1] = "\\"
       \/ hasEscape(p, pos + 1, end)

RECURSIVE unescape(_, _, _)
unescape(source, i, end) ==
    IF i >= end THEN <<>>
    ELSE IF source[i + 1] = "\\" /\ i + 1 < end
    THEN LET c == source[i + 2]
         IN  <<CASE c = "b" -> BS [] c = "f" -> FF [] c = "n" -> LF
                 [] c = "r" -> CR [] c = "t" -> TAB [] OTHER -> c>>
             \o unescape(source, i + 2, end)
    ELSE <<source[i + 1]>> \o unescape(source, i + 1, end)

jsonParseString(p) ==
    IF ~jsonMatches(p, "\"")
    THEN [p |-> jsonError(p, "Expected '\"'"), value |-> NIL_VAL]
    ELSE LET start == p.pos + 1
             end == stringEnd(p, start)
         IN  IF end >= p.length
             THEN [p |-> jsonError([p EXCEPT !.pos = end],
                                   "Unterminated string"),
                   value |-> NIL_VAL]
             ELSE [p |-> [p EXCEPT !.pos = end + 1],
                   value |-> STRING_VAL(
                       IF ~hasEscape(p, start, end)
                       THEN SubSeq(p.source, start + 1, end)
                       ELSE unescape(p.source, start, end))]

RECURSIVE digitsEnd(_, _)
digitsEnd(source, pos) ==
    IF pos < Len(source) /\ isdigit(source[pos + 1])
    THEN digitsEnd(source, pos + 1)
    ELSE pos

digitsOf(source, from, to) ==
    [i \in 1..(to - from) |-> DigitValue(source[from + i])]

\* The scan of jsonParseNumber from pos: a sign, digits, a point and digits,
\* an exponent.
numberScan(source, pos) ==
    LET at(i) == IF i < Len(source) THEN source[i + 1] ELSE NUL
        whole == IF at(pos) = "-" THEN pos + 1 ELSE pos
        point == digitsEnd(source, whole)
        fraction == IF at(point) = "." THEN digitsEnd(source, point + 1)
                    ELSE point
        mark == IF at(fraction) \in {"e", "E"} THEN fraction + 1 ELSE fraction
        exponent == IF mark > fraction /\ at(mark) \in {"+", "-"}
                    THEN mark + 1 ELSE mark
        end == IF mark > fraction THEN digitsEnd(source, exponent)
               ELSE fraction
    IN  [neg |-> at(pos) = "-",
         whole |-> digitsOf(source, whole, point),
         fraction |-> IF fraction > point
                      THEN digitsOf(source, point + 1, fraction) ELSE <<>>,
         exponent |-> LET e == digitsValue(digitsOf(source, exponent, end))
                      IN  IF mark > fraction /\ at(mark) = "-" THEN 0 - e
                          ELSE e,
         end |-> end]

\* strtod on a text that jsonParseNumber has scanned.
strtod(buf) ==
    LET s == numberScan(buf, 0)
    IN  decimal(s.neg, s.whole, s.fraction, s.exponent)

NumberBuf == 64

jsonParseNumber(p) ==
    LET end == numberScan(p.source, p.pos).end
        len == IF end - p.pos >= NumberBuf THEN NumberBuf - 1
               ELSE end - p.pos
    IN  [p |-> [p EXCEPT !.pos = end],
         value |-> strtod(SubSeq(p.source, p.pos + 1, p.pos + len))]

RECURSIVE jsonParseValue(_)
RECURSIVE jsonParseElements(_, _)
RECURSIVE jsonParseMembers(_, _)

\* The loop of jsonParseArray: the parser and the items of the list after
\* it.
jsonParseElements(p, items) ==
    LET element == jsonParseValue(jsonSkipWhitespace(p))
        after == jsonSkipWhitespace(element.p)
    IN  IF element.p.hadError THEN [p |-> element.p, items |-> items]
        ELSE IF jsonMatches(after, ",")
        THEN jsonParseElements(jsonMatch(after, ","),
                               Append(items, element.value))
        ELSE [p |-> after, items |-> Append(items, element.value)]

jsonParseArray(p) ==
    LET open == jsonSkipWhitespace([p EXCEPT !.pos = @ + 1])
        elements == IF jsonPeek(open) # "]"
                    THEN jsonParseElements(open, <<>>)
                    ELSE [p |-> open, items |-> <<>>]
    IN  [p |-> IF jsonMatches(elements.p, "]")
               THEN jsonMatch(elements.p, "]")
               ELSE jsonError(elements.p, "Expected ']'"),
         value |-> LIST_VAL(elements.items)]

\* The loop of jsonParseObject: the parser and the table of the map after
\* it.
jsonParseMembers(p, table) ==
    LET key == jsonParseString(jsonSkipWhitespace(p))
        colon == jsonSkipWhitespace(key.p)
        val == jsonParseValue(jsonSkipWhitespace(jsonMatch(colon, ":")))
        after == jsonSkipWhitespace(val.p)
        set == tableSetInArray(table, key.value.s, val.value)
    IN  IF key.p.hadError THEN [p |-> key.p, table |-> table]
        ELSE IF ~jsonMatches(colon, ":")
        THEN [p |-> jsonError(colon, "Expected ':'"), table |-> table]
        ELSE IF val.p.hadError THEN [p |-> val.p, table |-> table]
        ELSE IF jsonMatches(after, ",")
        THEN jsonParseMembers(jsonMatch(after, ","), set)
        ELSE [p |-> after, table |-> set]

jsonParseObject(p) ==
    LET open == jsonSkipWhitespace([p EXCEPT !.pos = @ + 1])
        members == IF jsonPeek(open) # "}"
                   THEN jsonParseMembers(open, emptyTable)
                   ELSE [p |-> open, table |-> emptyTable]
    IN  [p |-> IF jsonMatches(members.p, "}")
               THEN jsonMatch(members.p, "}")
               ELSE jsonError(members.p, "Expected '}'"),
         value |-> MAP_VAL(members.table)]

jsonParseValue(p0) ==
    LET p == jsonSkipWhitespace(p0)
        c == jsonPeek(p)
        word(w) == /\ p.pos + Len(w) <= p.length
                   /\ SubSeq(p.source, p.pos + 1, p.pos + Len(w)) = w
        skip(w) == [p EXCEPT !.pos = @ + Len(w)]
    IN  IF c = "\"" THEN jsonParseString(p)
        ELSE IF c = "-" \/ isdigit(c) THEN jsonParseNumber(p)
        ELSE IF c = "[" THEN jsonParseArray(p)
        ELSE IF c = "{" THEN jsonParseObject(p)
        ELSE IF word(<<"t", "r", "u", "e">>)
        THEN [p |-> skip(<<"t", "r", "u", "e">>), value |-> BOOL_VAL(TRUE)]
        ELSE IF word(<<"f", "a", "l", "s", "e">>)
        THEN [p |-> skip(<<"f", "a", "l", "s", "e">>),
              value |-> BOOL_VAL(FALSE)]
        ELSE IF word(<<"n", "u", "l", "l">>)
        THEN [p |-> skip(<<"n", "u", "l", "l">>), value |-> NIL_VAL]
        ELSE [p |-> jsonError(p, "Unexpected character"), value |-> NIL_VAL]

\* parseJSON: the value, and what the parse wrote to stderr.
parseJSON(json) ==
    LET parsed == jsonParseValue(initParser(json))
    IN  [value |-> IF parsed.p.hadError THEN NIL_VAL ELSE parsed.value,
         hadError |-> parsed.p.hadError,
         stderr |-> parsed.p.stderr]

(***************************************************************************)
(* The JSON serializer; build is what the build makes of an undefined      *)
(* conversion to int.                                                      *)
(***************************************************************************)
RECURSIVE jsonWriteString(_, _)
jsonWriteString(chars, i) ==
    IF i > Len(chars) THEN <<>>
    ELSE LET c == chars[i]
         IN  (CASE c = "\"" -> <<"\\", "\"">>
                [] c = "\\" -> <<"\\", "\\">>
                [] c = BS -> <<"\\", "b">>
                [] c = FF -> <<"\\", "f">>
                [] c = LF -> <<"\\", "n">>
                [] c = CR -> <<"\\", "r">>
                [] c = TAB -> <<"\\", "t">>
                [] OTHER -> <<c>>)
             \o jsonWriteString(chars, i + 1)

quoted(chars) == <<"\"">> \o jsonWriteString(chars, 1) \o <<"\"">>

jsonWriteNumber(num, build) ==
    IF doubleEqual(num, castInt(num, build)) /\ withinE15(num)
    THEN formatInt(castInt(num, build))
    ELSE formatG(num)

RECURSIVE jsonWriteValue(_, _)
RECURSIVE jsonWriteItems(_, _, _)
RECURSIVE jsonWriteEntries(_, _, _, _)

jsonWriteItems(items, i, build) ==
    IF i > Len(items) THEN <<>>
    ELSE (IF i > 1 THEN <<",">> ELSE <<>>)
         \o jsonWriteValue(items[i], build)
         \o jsonWriteItems(items, i + 1, build)

jsonWriteEntries(table, i, first, build) ==
    IF i >= table.capacity THEN <<>>
    ELSE LET entry == table.entries[i + 1]
         IN  IF ~entry.used THEN jsonWriteEntries(table, i + 1, first, build)
             ELSE (IF ~first THEN <<",">> ELSE <<>>)
                  \o quoted(entry.key) \o <<":">>
                  \o jsonWriteValue(entry.value, build)
                  \o jsonWriteEntries(table, i + 1, FALSE, build)

jsonWriteValue(value, build) ==
    CASE value.t = "nil" -> <<"n", "u", "l", "l">>
      [] value.t = "bool" -> IF value.b THEN <<"t", "r", "u", "e">>
                             ELSE <<"f", "a", "l", "s", "e">>
      [] value.t = "num" -> jsonWriteNumber(value, build)
      [] value.t = "str" -> quoted(value.s)
      [] value.t = "list" ->
             <<"[">> \o jsonWriteItems(value.items, 1, build) \o <<"]">>
      [] value.t = "map" ->
             <<"{">> \o jsonWriteEntries(value.table, 0, TRUE, build)
             \o <<"}">>
      [] OTHER -> <<"n", "u", "l", "l">>

toJSON(value, build) == jsonWriteValue(value, build)

(***************************************************************************)
(* to_json(parse_json(s)) on canonical texts: no whitespace, numbers in    *)
(* plain decimal notation without needless zeros, strings with no escape   *)
(* but the needed ones, the keys of a map distinct.                        *)
(***************************************************************************)
RECURSIVE Joined(_, _)
Joined(texts, i) ==
    IF i > Len(texts) THEN <<>>
    ELSE (IF i > 1 THEN <<",">> ELSE <<>>) \o texts[i] \o Joined(texts, i + 1)

ListText(texts) == <<"[">> \o Joined(texts, 1) \o <<"]">>

MapText(keys, texts) ==
    <<"{">> \o Joined([i \in 1..Len(keys) |->
                          <<"\"">> \o keys[i] \o <<"\"", ":">> \o texts[i]], 1)
    \o <<"}">>

WordTexts == {<<"n", "u", "l", "l">>, <<"t", "r", "u", "e">>,
              <<"f", "a", "l", "s", "e">>}

NumberTexts ==
    {<<"0">>, <<"7">>, <<"-", "3">>, <<"1", "0", "0">>, <<"1", ".", "5">>,
     <<"-", "0", ".", "2", "5">>, <<"1", "2", "3", "4", "5", "6">>,
     <<"0", ".", "0", "0", "0", "1">>,
     <<"2", "1", "4", "7", "4", "8", "3", "6", "4", "7">>,
     <<"-", "2", "1", "4", "7", "4", "8", "3", "6", "4", "8">>,
     <<"2", "1", "4", "7", "4", "8", "3", "6", "4", "8">>,
     <<"3", "0", "0", "0", "0", "0", "0", "0", "0", "0">>,
     <<"0", ".", "1", "2", "3", "4", "5", "6", "7">>,
     <<"1", "2", "3", "4", "5", "6", "7", ".", "5">>,
     <<"0", ".", "0", "0", "0", "0", "1">>}

StringTexts ==
    {<<"\"", "\"">>, <<"\"", "a", "\"">>, <<"\"", "a", " ", "b", "\"">>,
     <<"\"", "a", "\\", "\"", "b", "\"">>, <<"\"", "\\", "\\", "\"">>,
     <<"\"", "\\", "n", "\"">>, <<"\"", "\\", "t", "a", "\"">>,
     <<"\"", "a", "/", "b", "\"">>,
     <<"\"", "\\", "u", "0", "0", "0", "1", "\"">>}

ScalarTexts == WordTexts \cup NumberTexts \cup StringTexts

ItemTexts == {<<"n", "u", "l", "l">>, <<"7">>, <<"1", ".", "5">>,
              <<"\"", "a", "\"">>}

Keys == {<<"a">>, <<"b">>, <<"c">>, <<"x", "y">>}

MaxKeys == 3

KeyLists ==
    {keys \in UNION {[1..n -> Keys] : n \in 1..MaxKeys} :
        \A i, j \in DOMAIN keys : i # j => keys[i] # keys[j]}

ListTexts ==
    {ListText(<<>>)}
    \cup {ListText(<<s>>) : s \in ScalarTexts}
    \cup {ListText(<<s, t>>) : s, t \in ItemTexts}
    \cup {ListText(<<ListText(<<s>>), t>>) : s, t \in ItemTexts}

MapTexts ==
    {MapText(<<>>, <<>>)}
    \cup {MapText(<<k>>, <<s>>) : k \in Keys, s \in ItemTexts}
    \cup {MapText(keys, [i \in DOMAIN keys |-> <<DigitChars[i + 1]>>]) :
             keys \in KeyLists}
    \cup {MapText(<<k>>, <<ListText(<<MapText(<<k>>, <<s>>)>>)>>) :
             k \in Keys, s \in ItemTexts}

JsonTexts == ScalarTexts \cup ListTexts \cup MapTexts

JsonInit ==
    /\ verb = "run"
    /\ initVM(verb)
    /\ pc = "json"
    /\ runs = 0
    /\ script = astNewProgram(<<>>)
    /\ result = "none"
    /\ exitCode = -1
    /\ stress = FALSE
    /\ steps = 0
    /\ arg \in {<<s>> : s \in JsonTexts}
    /\ ret = <<>>

\* parse_json(s)
ParseJson ==
    /\ pc = "json"
    /\ ret = <<>>
    /\ ret' = <<parseJSON(arg[1])>>
    /\ UNCHANGED <<machine, permissions, verb, runs, script, exitCode, arg>>

\* to_json of what parse_json returned
ToJson ==
    /\ pc = "json"
    /\ Len(ret) = 1
    /\ \E build \in Builds : ret' = Append(ret, toJSON(ret[1].value, build))
    /\ UNCHANGED <<machine, permissions, verb, runs, script, exitCode, arg>>

JsonNext == ParseJson \/ ToJson

SpecJson == JsonInit /\ [][JsonNext]_vars

\* The VM about to execute the instruction at offset off of the script
\* being compiled, with false on top of the stack and no handler installed.
AtInstruction(off) ==
    [ip |-> [chunk |-> 1, off |-> off],
     heap |-> <<[kind |-> "closure", function |-> arg[1].cs[1].function]>>,
     frames |-> [i \in {0} |-> [closure |-> 1, slots |-> 0,
                                ip |-> [chunk |-> 1, off |-> 0]]],
     frameCount |-> 1, stack |-> [i \in {0} |-> BOOL_VAL(FALSE)],
     stackTop |-> 1, handlers |-> <<>>, pushes |-> 0, pc |-> "dispatch"]

\* Where the VM continues after the jump at opcode offset off is taken: for
\* PUSH_HANDLER, the handlerIP it records.
Lands(off) ==
    LET m == AtInstruction(off)
        instruction == READ_BYTE(m, 0)
    IN  CASE instruction = OP_JUMP -> opJump(m).ip.off
          [] instruction = OP_JUMP_IF_FALSE -> opJumpIfFalse(m).ip.off
          [] instruction = OP_LOOP -> opLoop(m).ip.off
          [] instruction = OP_PUSH_HANDLER ->
                opPushHandler(m).handlers[1].handlerIP.off

\* C23: the operand patchJump stores is target - (jumpSite + 2), and the
\* Jump, JumpIfFalse or PushHandler executed there continues (or puts its
\* handler) at target; a Loop emitted by emitLoop continues at loopStart.
C23_JumpLandsAtTarget ==
    \A k \in 1..Len(ret) :
        /\ ret[k].op = "jump" =>
              /\ READ_SHORT(AtInstruction(ret[k].jumpSite), 0)
                    = ret[k].target - (ret[k].jumpSite + 2)
              /\ Lands(ret[k].jumpSite - 1) = ret[k].target
        /\ ret[k].op = "loop" => Lands(ret[k].jumpSite - 1) = ret[k].target

\* The same for the jumps and loops that fit a 16-bit offset.
JumpsInRange ==
    \A k \in 1..Len(ret) :
        /\ ret[k].op = "jump" =>
              ret[k].target - (ret[k].jumpSite + 2) <= UINT16_MAX
        /\ ret[k].op = "loop" =>
              ret[k].jumpSite + 2 - ret[k].target <= UINT16_MAX

\* The constants whose emitted operand is not the index addConstant gave.
Truncated == {k \in 1..Len(ret) : ret[k].op = "constant"
                                   /\ ret[k].operand # ret[k].index}

\* C21: an operand that indexes the constant pool fits one byte, no chunk
\* holds more than 255 constants, and when a function needs more, so that
\* an operand cannot be the constant's index, compile() returns failure.
C21_ConstantIndexFitsByte ==
    /\ \A k \in 1..Len(ret) :
          ret[k].op = "constant" => ret[k].operand \in 0..UINT8_MAX
    /\ \A level \in 1..Len(arg[1].cs) :
          Len(arg[1].cs[level].function.constants) <= UINT8_MAX
    /\ (pc = "emitted" /\ Truncated # {}) => ~ret[Len(ret)].ok

\* The matches of the function being executed.
Matches == IF frameCount >= 1 /\ ip.chunk \in 1..Len(heap)
              /\ heap[ip.chunk].kind = "closure"
           THEN heap[ip.chunk].function.matches
           ELSE <<>>

\* What the subject or an arm's body evaluates to in the scripts with a
\* match: a literal's value; nil for a call of print and for a block.
ValueOf(node) == IF node.type = "NODE_LITERAL" THEN node.value ELSE NIL_VAL

\* The value of a match by its definition: the body of the first arm, in
\* source order, that is a wildcard or whose pattern equals the subject;
\* nil when there is none.
MatchValue(node) ==
    LET hits == {i \in 1..Len(node.arms) :
                    \/ node.arms[i].pattern.type = "NODE_NONE"
                    \/ valuesEqual(ValueOf(node.subject),
                                   ValueOf(node.arms[i].pattern))}
    IN  IF hits = {} THEN NIL_VAL
        ELSE ValueOf(node.arms[CHOOSE i \in hits : \A j \in hits : i <= j].body)

\* How often the subject was evaluated, for a subject that prints.
SubjectPrints(node) ==
    Cardinality({i \in 1..Len(out) :
                    out[i] = [k \in 1..Len(node.subject.args) |->
                                 ValueOf(node.subject.args[k])]})

\* The code of match k of the current function has just been executed.
MatchDone(k) == pc = "dispatch" /\ ip.off = Matches[k].end

\* C27: after a match the value on top of the stack is the body of the
\* first arm whose pattern equals the subject (a wildcard equals every
\* subject; nil when no arm does), it is in the slot the subject was in,
\* and the subject has been evaluated once.
C27_MatchYieldsFirstArm ==
    \A k \in 1..Len(Matches) :
        MatchDone(k) =>
            /\ stackTop >= 1
            /\ stack[stackTop - 1] = MatchValue(Matches[k].node)
            /\ stackTop - 1 = frames[frameCount - 1].slots + Matches[k].subjectSlot
            /\ Matches[k].node.subject.type = "NODE_CALL" =>
                  SubjectPrints(Matches[k].node) = 1

Threads == arg[1].threads
Tasks == arg[1].tasks

\* Thread t returns from execTaskRunner in this step.
WorkerReturns(t) ==
    /\ t \in 1..Len(Threads)
    /\ Threads[t] = "running"
    /\ arg'[1].threads[t] = "returned"

\* pthread_create has been called at least once; every thread is joined.
Spawned == \E t \in 1..Len(Threads) : Threads[t] # "uninitialized"
AllJoined == \A t \in 1..Len(Threads) : Threads[t] = "joined"

\* C25: a worker changes nothing but the result of its own task; from the
\* first pthread_create to the last pthread_join no step changes the state
\* of the VM; the heap changes (the result Values are built) only when
\* every worker is joined.
C25_WorkersTouchOwnTask ==
    [][/\ \A t \in 1..MaxCommands :
             WorkerReturns(t) =>
                /\ \A u \in (1..Len(Tasks)) \ {t} :
                      /\ arg'[1].tasks[u] = Tasks[u]
                      /\ arg'[1].threads[u] = Threads[u]
                /\ arg'[1].tasks[t].command = Tasks[t].command
                /\ arg'[1].commands = arg[1].commands
                /\ UNCHANGED <<vmState, err>>
       /\ (Spawned /\ ~AllJoined) => UNCHANGED vmState
       /\ (Spawned /\ heap' # heap) => AllJoined]_vars

\* A worker has returned while the VM thread is still creating threads.
C25_Witness ==
    /\ pc = "spawn"
    /\ \E t, u \in 1..Len(Threads) :
          /\ Threads[t] = "returned"
          /\ Tasks[t].result # Uninitialized
          /\ Threads[u] = "uninitialized"

\* The map built for command i.
ResultMap(i) == heap[heap[ret[1].id].items[i].id].table

CompilerDiagnostics ==
    {"Too much code to jump over.", "Loop body too large.",
     "Too many constants in one chunk.",
     "Too many local variables in function.",
     "Too many closure variables in function.",
     "Can't return from top-level code."}

\* The step lets compile() run and a diagnostic of the compiler appears.
Diagnosed ==
    \E i \in (Len(err) + 1)..Len(err') : err'[i] \in CompilerDiagnostics

\* C22: when the compiler has written a diagnostic, compile() returns NULL:
\* interpret() gives INTERPRET_COMPILE_ERROR and not one instruction of the
\* compiled code is executed.
C22_DiagnosticFailsCompile ==
    [][Diagnosed => (/\ pc' = "idle"
                     /\ result' \in {"INTERPRET_COMPILE_ERROR",
                                     "INTERPRET_RUNTIME_ERROR"}
                     /\ (pc = "idle" => result' = "INTERPRET_COMPILE_ERROR")
                     /\ out' = out)]_vars

\* C24: for every canonical JSON text s (no whitespace, the keys of a map in
\* their original order), to_json(parse_json(s)) is s byte for byte: once
\* both natives have run, the text written is the text parsed.
C24_JsonRoundTrip ==
    (pc = "json" /\ Len(ret) = 2) => ret[2] = arg[1]

\* The run() in progress was entered by vmCallFunction for a callback of
\* map_fn; Callback is what the native keeps across it.
NestedRun ==
    /\ pc \in {"dispatch", "check"}
    /\ cstack # <<>>
    /\ "list" \in DOMAIN cstack[Len(cstack)]

Callback == cstack[Len(cstack)]

\* The nested run() returns to vmCallFunction in this step: the native has
\* gone on to its next element or has returned itself.
CallbackEnds ==
    /\ NestedRun
    /\ \/ Len(cstack') < Len(cstack)
       \/ Len(cstack') = Len(cstack) /\ cstack'[Len(cstack)] # Callback

\* The step is a RETURN that takes the frame count to the baseline.
ReturnsToBaseline ==
    /\ NestedRun
    /\ Dispatching
    /\ Instr = OP_RETURN
    /\ stackTop >= 1
    /\ frameCount - 1 = baseFrameCount

\* The native after the callback's run() returned value: it has appended
\* the value and has entered the callback for the next element from the
\* state in which it entered this one, or it has returned its list from the
\* state in which it was called.
ResumedWith(value) ==
    /\ heap'[Callback.result].items =
           Append(heap[Callback.result].items, value)
    /\ IF Callback.i + 1 < Len(heap[Callback.list].items)
       THEN /\ cstack' = [cstack EXCEPT ![Len(cstack)].i = @ + 1]
            /\ stackTop' = Callback.args + Callback.argCount + 1 + 2
            /\ frameCount' = baseFrameCount + 1
            /\ baseFrameCount' = baseFrameCount
            /\ pc' = "dispatch"
       ELSE /\ cstack' = SubSeq(cstack, 1, Len(cstack) - 1)
            /\ stackTop' = Callback.args
            /\ stack'[Callback.args - 1] = OBJ_VAL(Callback.result)
            /\ frameCount' = baseFrameCount
            /\ baseFrameCount' = Callback.savedBase
            /\ pc' = "check"
    /\ \A i \in 0..(Callback.args + Callback.argCount - 1) :
           i # Callback.args - 1 => stack'[i] = stack[i]
    /\ \A k \in 0..(baseFrameCount - 1) : frames'[k] = frames[k]

\* What C31 says of one step.
NestedRunStep ==
    /\ NestedRun => frameCount > baseFrameCount
    /\ (NestedRun /\ ~CallbackEnds) => frameCount' > baseFrameCount
    /\ CallbackEnds => ReturnsToBaseline
    /\ ReturnsToBaseline => ResumedWith(peek(VM, 0))

\* C31: the run() that a native started for a callback returns exactly when
\* the frame count first drops back to the baseline: while it goes on the
\* frames stay above the baseline, and it returns only by the RETURN that
\* reaches the baseline, with the callback's value on top of the stack.
\* Once the native has popped the value, stack top, frame count and
\* baseFrameCount are what they were before the callback was invoked, for
\* a callback inside a callback too.
C31_NestedRunReturnsAtBaseline == [][NestedRunStep]_vars

\* An error raised in a callback is about to go to a handler that was
\* registered outside the native: in a frame at or below the baseline.
OuterHandlerFires ==
    /\ NestedRun
    /\ HandlerFires
    /\ topHandler(VM).frameCount <= baseFrameCount

\* C32: when a callback of a higher-order native raises an error while a
\* handler registered outside the native is active, that handler fires,
\* once; the native is abandoned, so it invokes no further callback, and
\* the run() that goes on with the handler body is not the one that
\* vmCallFunction entered for the callback.
C32_OuterHandlerEndsNative ==
    [][OuterHandlerFires =>
          /\ fired' = Append(fired, topHandler(VM).seq)
          /\ ~hasError'
          /\ ip' = topHandler(VM).handlerIP
          /\ frameCount' = topHandler(VM).frameCount
          /\ cstack' = <<>> \/ frameCount' > baseFrameCount']_vars

\* run() goes on until it returns: while the VM is at an instruction, or at
\* the check after a call, a step is taken in the end.  (The steps of the
\* scripts' loops are among these: the instructions other than IMPORT, outside
\* the callbacks of a native.)
Runs ==
    /\ pc \in {"dispatch", "check"}
    /\ cstack = <<>>
    /\ pc = "dispatch" => Instr # OP_IMPORT
    /\ Next

SpecFair == Spec /\ WF_vars(Runs)

\* The loops of the function being executed.
Loops == IF frameCount >= 1 /\ ip.chunk \in 1..Len(heap)
            /\ heap[ip.chunk].kind = "closure"
         THEN heap[ip.chunk].function.loops
         ELSE <<>>

ForLoops == SelectSeq(Loops, LAMBDA loop : loop.kind = "for")

\* The local in this slot of the current frame.
Local(slot) == stack[frames[frameCount - 1].slots + slot]

\* The next instruction is a LOOP back to the start of this loop: the end
\* of its body or a `continue`.
LoopsBack(loop) ==
    /\ pc = "dispatch"
    /\ ip.off + 3 <= Len(Code(VM))
    /\ Instr = OP_LOOP
    /\ opLoop(VM).ip.off = loop.loopStart

\* The hidden index is one past the element that the loop variable holds
\* (the lists of the scripts hold every element once).
IndexAdvanced(loop) ==
    LET index == Local(loop.idxSlot)
        items == heap[Local(loop.iterSlot).id].items
    IN  /\ IS_NUMBER(index)
        /\ index.n \in 1..Len(items)
        /\ items[index.n] = Local(loop.varSlot)

\* Control is inside the code of a for loop.
InForLoop ==
    /\ pc \in {"dispatch", "check"}
    /\ \E k \in 1..Len(ForLoops) :
          ip.off >= ForLoops[k].first /\ ip.off < ForLoops[k].after

\* C33: a for loop runs its body at most once per element, in index order:
\* whenever control goes back to the loop's condition, from the end of the
\* body or from a `continue`, the index has moved past the element just
\* handled; and the loop terminates.
C33_ForVisitsEachElementOnce ==
    /\ [](\A k \in 1..Len(ForLoops) :
            LoopsBack(ForLoops[k]) => IndexAdvanced(ForLoops[k]))
    /\ (InForLoop ~> ~InForLoop)

\* Where the jump of a break lands: the operand as patchJump left it (or as
\* emitJump wrote it), counted from the byte after the operand.
BreakTarget(function, break) ==
    break.operand + 2 + function.code[break.operand + 1] * 256
        + function.code[break.operand + 2]

\* The break lands on the first instruction after the loop it stands in.
BreakLeavesOwnLoop(function, break) ==
    \E k \in 1..Len(function.loops) :
        /\ function.loops[k].loopStart = break.loopStart
        /\ BreakTarget(function, break) = function.loops[k].exit

\* C34: in every compiled function, the jump of every `break` is patched to
\* the first instruction after its own innermost enclosing loop; none is
\* left unpatched or patched to the end of another loop.
C34_BreakLeavesOwnLoop ==
    \A id \in 1..Len(heap) :
        heap[id].kind = "closure" =>
            \A i \in 1..Len(heap[id].function.breaks) :
                BreakLeavesOwnLoop(heap[id].function, heap[id].function.breaks[i])

\* The values on the stack above the base of the current frame.
Height == stackTop - frames[frameCount - 1].slots

\* C35: whenever control is at the start of a loop, on entry, from the end
\* of the body or from a `continue`, the values above the frame base are as
\* many as the locals the compiler has declared inside the loop; and at the
\* instruction after the loop statement, whether the condition failed or a
\* `break` was executed, they are as many as before the statement.
C35_LoopKeepsStackHeight ==
    \A k \in 1..Len(Loops) :
        /\ (pc = "dispatch" /\ ip.off = Loops[k].loopStart) =>
               Height = Loops[k].inside
        /\ (pc = "dispatch" /\ ip.off = Loops[k].after) =>
               Height = Loops[k].locals

\* The next instruction is an IMPORT of a module that is in the cache.
ImportsCached ==
    /\ Dispatching
    /\ Instr = OP_IMPORT
    /\ hasString(VM, 1)
    /\ tableHas(modules, READ_CONSTANT(VM, 1).s)

\* The next instruction is the RETURN of a module's top level, which ends
\* the run() that IMPORT entered for it: the frame is the module's, whose
\* base slot is where the stack top was when IMPORT began.
ImportReturns ==
    /\ Dispatching
    /\ cstack # <<>>
    /\ "path" \in DOMAIN cstack[Len(cstack)]
    /\ Instr = OP_RETURN
    /\ stackTop >= 1
    /\ frameCount - 1 = baseFrameCount

\* C36: an IMPORT leaves the stack height and the frame count as they were
\* before it: at once for a module in the cache, and for a module that is
\* loaded when its run has ended and the importing frame goes on.
C36_ImportKeepsStackAndFrames ==
    /\ [][ImportsCached =>
             stackTop' = stackTop /\ frameCount' = frameCount]_vars
    /\ [][(ImportReturns /\ pc' = "dispatch") =>
             /\ stackTop' = frames[frameCount - 1].slots
             /\ frameCount' = frameCount - 1]_vars

\* The declarations `x = e` compiled into the function that runs.
Decls ==
    IF frameCount >= 1 /\ ip.chunk \in 1..Len(heap) /\ heap[ip.chunk].kind = "closure"
    THEN heap[ip.chunk].function.decls ELSE <<>>

\* The instructions compileVarDecl emitted after the code of e.
DeclCode(function, decl) == SubSeq(function.code, decl.value + 1, decl.end)

\* The declaration was compiled as the name resolved: a local or an upvalue
\* is rebound and the locals stay as they were, a name that is neither
\* becomes a new local of the current scope inside a function and a global
\* outside.
DeclaresAsResolved(function, decl) ==
    LET code == DeclCode(function, decl)
    IN  IF decl.local # -1
        THEN code = <<OP_SET_LOCAL, decl.local, OP_POP>> /\ decl.after = decl.before
        ELSE IF decl.upvalue # -1
        THEN code = <<OP_SET_UPVALUE, decl.upvalue, OP_POP>> /\ decl.after = decl.before
        ELSE IF decl.enclosed
        THEN /\ code = <<>>
             /\ decl.after = Append(decl.before, [name |-> decl.name,
                                                  depth |-> decl.scopeDepth,
                                                  isCaptured |-> FALSE])
        ELSE /\ Len(code) \in {2, 3}
             /\ code[1] \in {OP_SET_GLOBAL, OP_DEFINE_GLOBAL}
             /\ function.constants[code[2] + 1] = STRING_VAL(decl.name)
             /\ Len(code) = 3 => code[3] = OP_POP
             /\ decl.after = decl.before

\* What reading the declared name gives: the slot of the local, the
\* variable of the upvalue, or GetGlobal's answer.
ReadsDeclared(m, decl) ==
    IF decl.local # -1 THEN m.stack[frame(m).slots + decl.local]
    ELSE IF decl.upvalue # -1
    THEN upvalueGet(m, m.heap[frame(m).closure].upvalues[decl.upvalue + 1])
    ELSE IF decl.enclosed THEN m.stack[frame(m).slots + Len(decl.before)]
    ELSE IF cacheHit(m, decl.name) THEN entryValue(m, decl.name)
    ELSE m.globals[decl.name]

\* The value of e: the top of the stack for a new local, which stays
\* there, and the slot just popped otherwise.
DeclaredValue(m, decl) ==
    IF decl.local = -1 /\ decl.upvalue = -1 /\ decl.enclosed
    THEN m.stack[m.stackTop - 1]
    ELSE m.stack[m.stackTop]

\* The step ends the code of the declaration: it comes from inside that
\* code, or returns into its end from the call that ended e.
DeclEnds(decl) ==
    /\ pc' = "dispatch"
    /\ frameCount' >= 1
    /\ ip'.off = decl.end
    /\ \/ pc = "dispatch" /\ frameCount' = frameCount /\ ip.chunk = ip'.chunk
          /\ ip.off >= decl.start /\ ip.off < decl.end
       \/ pc = "dispatch" /\ frameCount' = frameCount - 1 /\ Instr = OP_RETURN
       \/ pc = "check" /\ ~hasError /\ ip' = ip

\* C37: `x = e` rebinds the local or the upvalue x resolves to and creates
\* no variable, declares a new local of the current scope inside a function
\* otherwise, and sets the global x at the top level; reading x right after
\* the declaration gives the value of e.
C37_DeclarationBindsValue ==
    /\ [](\A id \in 1..Len(heap) : heap[id].kind = "closure" =>
            \A i \in 1..Len(heap[id].function.decls) :
                DeclaresAsResolved(heap[id].function, heap[id].function.decls[i]))
    /\ [][\A i \in 1..Len(Decls') :
            DeclEnds(Decls'[i]) => ReadsDeclared(VM', Decls'[i]) = DeclaredValue(VM', Decls'[i])]_vars

\* GET_GLOBAL by a lookup in the table alone.
uncachedGet(m) ==
    LET name == READ_CONSTANT(m, 1).s
    IN  IF name \in DOMAIN m.globals THEN rawPush(advance(m, 2), m.globals[name])
        ELSE fault(advance(m, 2), "Undefined variable '" \o name \o "'.")

\* SET_GLOBAL by tableSet alone.
uncachedSet(m) == setGlobal(advance(m, 2), READ_CONSTANT(m, 1).s, peek(m, 0))

\* The VM without the inline cache and the layout of the entry array: what
\* is left is the table as a map from names to values.
Uncached(m) == [m EXCEPT !.globalIC = <<>>, !.globalsTable = initTable]

GetsGlobal == Dispatching /\ Instr = OP_GET_GLOBAL /\ hasString(VM, 1)

SetsGlobal == Dispatching /\ Instr = OP_SET_GLOBAL /\ hasString(VM, 1) /\ stackTop >= 1

\* C38: GET_GLOBAL and SET_GLOBAL through the inline cache do what a lookup
\* in the globals table does: the value of that name is pushed or replaced,
\* and the read of a name that is not in the table reports the undefined
\* variable.
C38_CacheAgreesWithTable ==
    /\ [][GetsGlobal => Uncached(VM') = Uncached(uncachedGet(VM))]_vars
    /\ [][SetsGlobal => Uncached(VM') = Uncached(uncachedSet(VM))]_vars

\* The commands of the list parallel_exec was called with.
Permitted(command) == hasPermission(permissions, PERM_EXEC, command)

SomeDenied ==
    \E i \in 1..Len(arg[1].commands) : ~Permitted(arg[1].commands[i])

\* A subprocess was started.
Started == \E e \in 1..Len(ext) : ext[e].op = "processExec"

\* C39: parallel_exec checks the exec permission of every command before
\* it spawns a worker: with a command of the list that is not permitted no
\* worker is created and no subprocess is started, and the call gives nil.
C39_ValidatesBeforeSpawning ==
    (pc # "validate" /\ SomeDenied) =>
        /\ ~Spawned
        /\ ~Started
        /\ pc = "returned"
        /\ ret = <<NIL_VAL>>

\* The call has returned for a list whose first command is permitted and
\* whose last one is not.
C39_Witness ==
    /\ pc = "returned"
    /\ Len(arg[1].commands) >= 2
    /\ Permitted(arg[1].commands[1])
    /\ ~Permitted(arg[1].commands[Len(arg[1].commands)])
    /\ ~Spawned
    /\ ~Started

(***************************************************************************)
(* proc.retry (modules/proc.c) on its own.  The script has evaluated the   *)
(* arguments (pc = "arguments"), procRetryNative looks for the function    *)
(* ("enter"), calls it in a loop ("attempt") and ends after the loop       *)
(* ("exhausted").  arg[1] holds the argument array, the function found,    *)
(* the loop counter and the history of the invocations.                    *)
(***************************************************************************)
MaxAttempts == 3

\* What the script passes where the function goes: a closure, natives, a
\* value that cannot be called, or nothing.
RetryFns == {"closure", "print", "exec", "fs.exists", "string", "none"}

\* fn f() {}
RetryFunction == [newFunction EXCEPT !.name = "f", !.code = <<OP_NIL, OP_RETURN>>]

IS_CALLABLE(m, v) == IS_CLOSURE(m, v) \/ IS_NATIVE(v)

\* The loop over args[1..argCount - 1] from index i on (0-based): the last
\* callable argument is the function, a number at index 1 is the backoff.
RECURSIVE retryScan(_, _, _, _)
retryScan(m, argv, i, found) ==
    IF i >= Len(argv) THEN found
    ELSE IF IS_CALLABLE(m, argv[i + 1])
    THEN retryScan(m, argv, i + 1, [found EXCEPT !.fn = argv[i + 1]])
    ELSE IF IS_NUMBER(argv[i + 1]) /\ i = 1
    THEN retryScan(m, argv, i + 1, [found EXCEPT !.backoff = argv[i + 1].n])
    ELSE retryScan(m, argv, i + 1, found)

\* 1 << i
RECURSIVE shiftLeft(_)
shiftLeft(i) == IF i = 0 THEN 1 ELSE 2 * shiftLeft(i - 1)

RetryInit ==
    /\ verb \in {"run", "run --allow-all"}
    /\ initVM(verb)
    /\ pc = "arguments"
    /\ runs = 0
    /\ script = astNewProgram(<<>>)
    /\ result = "none"
    /\ exitCode = -1
    /\ stress = FALSE
    /\ steps = 0
    /\ \E first \in {NIL_VAL} \cup {NUMBER_VAL(n) : n \in 0..MaxAttempts},
          second \in {<<>>, <<NUMBER_VAL(0)>>, <<NUMBER_VAL(1)>>},
          fn \in RetryFns :
          arg = <<[first |-> first, second |-> second, kind |-> fn, args |-> <<>>,
                   fn |-> NIL_VAL, backoff |-> 1, i |-> 0, calls |-> <<>>]>>
    /\ ret = <<>>

\* The script evaluates the arguments of the call; a function declared by
\* the script is a closure on the heap.
RetryArguments ==
    /\ pc = "arguments"
    /\ LET kind == arg[1].kind
           m == IF kind = "closure" THEN allocateObject(VM, newClosure(RetryFunction))
                ELSE VM
           last == CASE kind = "closure" -> <<OBJ_VAL(Len(heap) + 1)>>
                     [] kind = "string" -> <<STRING_VAL("a")>>
                     [] kind = "none" -> <<>>
                     [] OTHER -> <<NATIVE_VAL(kind)>>
       IN  /\ Install([m EXCEPT !.pc = "enter"])
           /\ arg' = <<[arg[1] EXCEPT !.args = <<arg[1].first>> \o arg[1].second \o last]>>
    /\ UNCHANGED <<ret, ParRest>>

\* procRetryNative up to the loop of the attempts.
RetryEnter ==
    /\ pc = "enter"
    /\ LET argv == arg[1].args
           found == retryScan(VM, argv, 1, [fn |-> NIL_VAL, backoff |-> 1])
       IN  IF Len(argv) < 2 \/ ~IS_NUMBER(argv[1])
           THEN /\ Install([VM EXCEPT !.pc = "returned"])
                /\ ret' = <<NIL_VAL>>
                /\ arg' = arg
           ELSE IF IS_NIL(found.fn)
           THEN /\ Install([vmRaiseError(VM, "retry requires a function argument", "type")
                               EXCEPT !.pc = "returned"])
                /\ ret' = <<NIL_VAL>>
                /\ arg' = arg
           ELSE /\ Install([VM EXCEPT !.pc = IF IS_NATIVE(found.fn) THEN "attempt"
                                             ELSE "exhausted"])
                /\ ret' = ret
                /\ arg' = <<[arg[1] EXCEPT !.fn = found.fn, !.backoff = found.backoff]>>
    /\ UNCHANGED ParRest

\* One turn of the loop: `nativeFn(vm, 0, NULL)`, the return when no error
\* is raised, the wait before the next turn.
RetryAttempt ==
    /\ pc = "attempt"
    /\ LET i == arg[1].i
           attempts == arg[1].args[1].n
           called == callNative([VM EXCEPT !.hasError = FALSE], arg[1].fn.name, 0, 0)
           wait == arg[1].backoff * shiftLeft(i)
       IN  IF i >= attempts
           THEN /\ Install([VM EXCEPT !.pc = "exhausted"])
                /\ UNCHANGED <<arg, ret>>
           ELSE IF ~called.m.hasError
           THEN /\ Install([called.m EXCEPT !.pc = "returned"])
                /\ ret' = <<called.result>>
                /\ arg' = <<[arg[1] EXCEPT !.calls = Append(@, [raised |-> FALSE,
                                                               result |-> called.result])]>>
           ELSE /\ Install(IF i < attempts - 1 /\ wait > 0
                           THEN external(called.m, "nanosleep", wait)
                           ELSE called.m)
                /\ ret' = ret
                /\ arg' = <<[arg[1] EXCEPT !.i = i + 1,
                                           !.calls = Append(@, [raised |-> TRUE,
                                                                result |-> called.result])]>>
    /\ UNCHANGED ParRest

\* After the loop, or without it: an error is raised unless one is pending.
RetryExhausted ==
    /\ pc = "exhausted"
    /\ Install([(IF ~hasError THEN vmRaiseError(VM, "All retry attempts failed", "retry")
                 ELSE VM) EXCEPT !.pc = "returned"])
    /\ ret' = <<NIL_VAL>>
    /\ UNCHANGED <<arg, ParRest>>

RetryNext == RetryArguments \/ RetryEnter \/ RetryAttempt \/ RetryExhausted

SpecRetry == RetryInit /\ [][RetryNext]_vars

\* retry(n, fn), with or without a backoff, was called with a number and a
\* function and has returned.
Retried ==
    /\ pc = "returned"
    /\ Len(arg[1].args) >= 2
    /\ IS_NUMBER(arg[1].args[1])
    /\ IS_CALLABLE(VM, arg[1].args[Len(arg[1].args)])

\* C40: retry(n, fn) calls fn, a native or a closure, at most n times and
\* stops at the first call that raises nothing: it returns the result of
\* that call with no error pending, and it returns with an error pending
\* only when all n calls have raised.
C40_RetryStopsAtFirstSuccess ==
    Retried =>
        LET calls == arg[1].calls
            n == arg[1].args[1].n
            raised == {k \in 1..Len(calls) : calls[k].raised}
        IN  /\ Len(calls) <= n
            /\ 1..(Len(calls) - 1) \subseteq raised
            /\ IF hasError
               THEN Len(calls) = n /\ raised = 1..n
               ELSE /\ Len(calls) >= 1
                    /\ ~calls[Len(calls)].raised
                    /\ ret = <<calls[Len(calls)].result>>


====
